---- MODULE Spec2Model ----
(***************************************************************************)
(* A model of the JSON Schema validator of tao/json/contrib/schema.hpp:    *)
(* the schema graph builder (schema_node, schema_container) and the        *)
(* streaming validator (schema_consumer).                                  *)
(*                                                                         *)
(* A schema document is a tree of JSON values.  The code identifies a      *)
(* sub-schema by the address of its value (a basic_value pointer); the model*)
(* identifies it by its path from the root of the document, a sequence of  *)
(* member names and array indices.  A resolved "$ref" is a value of tag    *)
(* "value_ptr" holding the path of its target (type::VALUE_PTR).           *)
(***************************************************************************)
EXTENDS Integers, Sequences, FiniteSets, TLC

VARIABLES
    doc,        \* the name of the schema document the container is built from
    m_value,    \* schema_container::m_value: the document, "$ref"s resolved
    phase,      \* where the caller is: constructing the graph, streaming, ...
    nodes,      \* schema_container::m_nodes
    made,       \* how many times make_node has built a node for each position
    round,      \* iterations of the closure loop of the constructor so far
    run,        \* which validation of the value is going on (0: none yet)
    sess,       \* the schema_consumer of each validation, by root position
    fault,      \* how the creation or an event handler of each session ended
    stream,     \* the events delivered in this validation so far
    stream1,    \* the events of the first validation, replayed by the second
    pstack,     \* the producer's open aggregates (events::from_value)
    pdone,      \* the producer has delivered the whole value
    verdict,    \* the result of finalize() of this validation, by position
    verdict1,   \* the results of the first validation
    counterMap, \* IfCounter::counterMap of the one IfCounter::instance()
    thr,        \* the validations that run at once, each with its session
    crashed,    \* the process has ended in a crash
    input,      \* the events of the value given to validate, if one is given
    build,      \* what the build does where a signed integer overflows
    calls,      \* the calls of resolve_references on the document so far
    history     \* the calls of the IfCounter made one after the other

vars == <<doc, m_value, phase, nodes, made, round, run, sess, fault, stream, stream1,
          pstack, pdone, verdict, verdict1, counterMap, thr, crashed,
          input, build, calls, history>>

-----------------------------------------------------------------------------
(* Bounds of the model.                                                    *)

\* Events of one value.
MaxLen == 7
\* Aggregates open at once in the value.
MaxDepth == 2

-----------------------------------------------------------------------------
(* JSON values (tao::json::basic_value).                                   *)

JNull == [tag |-> "null"]
JBool(b) == [tag |-> "boolean", b |-> b]
JSigned(i) == [tag |-> "signed", n |-> i]
JUnsigned(u) == [tag |-> "unsigned", n |-> u]
JDouble(d) == [tag |-> "double", n |-> d]
JStr(s) == [tag |-> "string", s |-> s]
JArr(es) == [tag |-> "array", elems |-> es]
JObj(ms) == [tag |-> "object", members |-> ms]
JPtr(target) == [tag |-> "value_ptr", target |-> target]
EmptyObj == [tag |-> "object", members |-> <<>>]

\* The null pointer: no path of a document.
NullPtr == <<"#nullptr">>

\* Member names in the order std::map iterates an object's members.
KeyOrder ==
    <<"$ref", "a", "additionalItems", "additionalProperties", "aiF", "aiS", "all", "allAR", "allOf",
      "any", "anyIA", "anyOf", "anySA", "apF", "apS", "apT", "b", "ba", "bad", "c", "d", "definitions",
      "dep", "dep0", "depB", "dependencies", "emp", "en3", "enum", "int", "intsArr", "itAI", "itInt", "itNot",
      "items", "len1", "max0", "maxItems", "maxLength", "maximum", "min2",
      "minItems", "minLength", "minimum", "mul2", "multipleOf", "not", "notInts", "notNot", "notOne", "notReq", "notStr",
      "one1", "oneAR", "oneOf", "oneSA", "oneSI", "oneSM", "patternProperties", "pp", "propA", "properties",
      "req", "req2", "reqA", "required", "s", "sdP", "sdR", "sdT", "str", "t", "tArr", "tIS", "tInt", "tNN", "tNum", "tStr", "tup0", "tup1", "tup2", "tupNot", "tupS",
      "type", "typedNot", "uniq", "uniqueItems", "unused", "x", "z">>

SortedKeys(S) == SelectSeq(KeyOrder, LAMBDA k : k \in S)

Range(f) == { f[i] : i \in DOMAIN f }

\* The path element of array index i (from 0).
Idx(i) == ToString(i)
IdxOf(s) == CHOOSE i \in 0..9 : ToString(i) = s

\* Every position of a value that holds an object or anything else a
\* keyword may refer to: all paths of the tree.
RECURSIVE Paths(_)
Paths(v) ==
    {<<>>} \cup
    CASE v.tag = "object" ->
           UNION { { <<k>> \o q : q \in Paths(v.members[k]) } : k \in DOMAIN v.members }
      [] v.tag = "array" ->
           UNION { { <<Idx(i - 1)>> \o q : q \in Paths(v.elems[i]) } : i \in 1..Len(v.elems) }
      [] OTHER -> {}

-----------------------------------------------------------------------------
(* The schema documents of the model, with their "$ref"s resolved.         *)

Def(k) == <<"definitions", k>>
TypeOnly(t) == JObj([type |-> JStr(t)])

\* Composition keywords over shared leaves: each entry of "definitions" is a
\* schema of its own, and every one of them is validated.
DocCompose ==
    JObj([
      definitions |-> JObj([
        str     |-> TypeOnly("string"),
        int     |-> TypeOnly("integer"),
        min2    |-> JObj([minLength |-> JUnsigned(2)]),
        intsArr |-> JObj([type |-> JStr("array"), items |-> TypeOnly("integer")]),
        reqA    |-> JObj([required |-> JArr(<<JStr("a")>>)]),
        propA   |-> JObj([properties |-> JObj([a |-> JPtr(Def("str"))])]),
        notStr  |-> JObj([not |-> JPtr(Def("str"))]),
        notReq  |-> JObj([not |-> JPtr(Def("reqA"))]),
        notInts |-> JObj([not |-> JPtr(Def("intsArr"))]),
        notNot  |-> JObj([not |-> JPtr(Def("notStr"))]),
        notOne  |-> JObj([not |-> JPtr(Def("oneAR"))]),
        typedNot |-> JObj([type |-> JStr("integer"), not |-> JPtr(Def("oneSM"))]),
        oneSI   |-> JObj([oneOf |-> JArr(<<JPtr(Def("str")), JPtr(Def("int"))>>)]),
        oneSM   |-> JObj([oneOf |-> JArr(<<JPtr(Def("str")), JPtr(Def("min2"))>>)]),
        oneAR   |-> JObj([oneOf |-> JArr(<<JPtr(Def("intsArr")), JPtr(Def("reqA"))>>)]),
        one1    |-> JObj([oneOf |-> JArr(<<JObj([maxLength |-> JUnsigned(1)])>>)]),
        all     |-> JObj([allOf |-> JArr(<<JPtr(Def("str")), JPtr(Def("min2"))>>)]),
        allAR   |-> JObj([allOf |-> JArr(<<JPtr(Def("intsArr")), JPtr(Def("propA"))>>),
                          minItems |-> JUnsigned(1)]),
        any     |-> JObj([anyOf |-> JArr(<<JPtr(Def("str")), JPtr(Def("int"))>>)]),
        anySA   |-> JObj([anyOf |-> JArr(<<JPtr(Def("all")), JPtr(Def("intsArr")),
                                           JPtr(Def("notReq"))>>)])
      ]),
      allOf |-> JArr(<<JPtr(Def("anySA")), JObj([not |-> JPtr(Def("oneSM"))])>>)
    ])

\* A schema that refers to itself through "items".
DocCycItems ==
    JObj([type |-> JStr("array"), items |-> JPtr(<<>>), maxItems |-> JUnsigned(1)])

\* A schema that refers to itself through "allOf".
DocCycAllOf == JObj([allOf |-> JArr(<<JPtr(<<>>)>>)])

\* An item schema that refers to itself through "not".
DocCycLazy == JObj([items |-> JObj([not |-> JPtr(<<"items">>)])])

\* A chain that the closure discovers one position a round, with an edge
\* back to the root.
DocChain ==
    JObj([items |-> JObj([items |-> JObj([items |-> JObj([items |-> JPtr(<<>>)])])])])

\* Documents that break a rule of a keyword.
DocBadRoot == JArr(<<>>)
DocBadEmpty == JObj([allOf |-> JArr(<<>>)])
DocBadDef == JObj([definitions |-> JObj([unused |-> TypeOnly("strin")])])
DocBadDefShape == JObj([definitions |-> JObj([bad |-> JUnsigned(5)])])
DocBadDeep == JObj([not |-> JObj([anyOf |-> JArr(<<EmptyObj, JObj([items |-> JNull])>>)])])
DocBadExclusive == JObj([properties |-> JObj([a |-> JObj([exclusiveMinimum |-> JBool(TRUE)])])])

\* An empty "enum".
DocEmptyEnum == JObj([definitions |-> JObj([unused |-> JObj([enum |-> JArr(<<>>)])])])

\* One keyword, or one pair of keywords, to a schema.
DocKeywords ==
    JObj([
      definitions |-> JObj([
        tStr  |-> TypeOnly("string"),
        tInt  |-> TypeOnly("integer"),
        tArr  |-> TypeOnly("array"),
        tNum  |-> TypeOnly("number"),
        tIS   |-> JObj([type |-> JArr(<<JStr("integer"), JStr("string")>>)]),
        tNN   |-> JObj([type |-> JArr(<<JStr("number"), JStr("null")>>)]),
        max0  |-> JObj([maximum |-> JUnsigned(0)]),
        mul2  |-> JObj([multipleOf |-> JUnsigned(2)]),
        len1  |-> JObj([maxLength |-> JUnsigned(1)]),
        itInt |-> JObj([items |-> JPtr(Def("tInt"))]),
        itNot |-> JObj([items |-> JObj([not |-> JPtr(Def("tStr"))])]),
        tup1  |-> JObj([items |-> JArr(<<JPtr(Def("tStr"))>>),
                        additionalItems |-> JBool(FALSE)]),
        tup2  |-> JObj([items |-> JArr(<<JPtr(Def("tStr")), JPtr(Def("tInt"))>>),
                        additionalItems |-> JBool(FALSE)]),
        tupNot |-> JObj([items |-> JArr(<<JPtr(Def("tStr")),
                                         JObj([not |-> JPtr(Def("tStr"))])>>),
                         additionalItems |-> JBool(FALSE)]),
        uniq  |-> JObj([uniqueItems |-> JBool(TRUE)]),
        emp   |-> EmptyObj,
        dep0  |-> JObj([dependencies |-> EmptyObj]),
        aiF   |-> JObj([additionalItems |-> JBool(FALSE)]),
        aiS   |-> JObj([additionalItems |-> JPtr(Def("tStr"))]),
        itAI  |-> JObj([items |-> JPtr(Def("tInt")),
                        additionalItems |-> JPtr(Def("tStr"))]),
        tup0  |-> JObj([items |-> JArr(<<JPtr(Def("tStr"))>>)]),
        tupS  |-> JObj([items |-> JArr(<<JPtr(Def("tStr"))>>),
                        additionalItems |-> JPtr(Def("tInt"))]),
        apF   |-> JObj([properties |-> JObj([a |-> JPtr(Def("tInt"))]),
                        patternProperties |-> JObj([a |-> JPtr(Def("mul2"))]),
                        additionalProperties |-> JBool(FALSE)]),
        apS   |-> JObj([properties |-> JObj([a |-> JPtr(Def("tInt"))]),
                        additionalProperties |-> JPtr(Def("tStr"))]),
        apT   |-> JObj([properties |-> JObj([a |-> JPtr(Def("tInt"))]),
                        additionalProperties |-> JBool(TRUE)]),
        pp    |-> JObj([properties |-> JObj([a |-> JPtr(Def("tInt"))]),
                        patternProperties |-> JObj([a |-> JPtr(Def("mul2")),
                                                    b |-> JPtr(Def("max0"))])]),
        sdT   |-> JObj([dependencies |-> JObj([a |-> TypeOnly("array")])]),
        sdR   |-> JObj([dependencies |-> JObj([a |-> JObj([required |-> JArr(<<JStr("b")>>)])])]),
        sdP   |-> JObj([dependencies |->
                          JObj([a |-> JObj([properties |-> JObj([b |-> JPtr(Def("tStr"))])])])]),
        en3   |-> JObj([enum |-> JArr(<<JStr("a"), JArr(<<JUnsigned(1)>>),
                                        JArr(<<JUnsigned(1), JUnsigned(1)>>)>>)]),
        anyIA |-> JObj([anyOf |-> JArr(<<JPtr(Def("tInt")), JPtr(Def("itInt")),
                                         JPtr(Def("uniq"))>>)]),
        oneSA |-> JObj([oneOf |-> JArr(<<JPtr(Def("tStr")), JPtr(Def("itInt")),
                                         JPtr(Def("uniq"))>>)]),
        req   |-> JObj([required |-> JArr(<<JStr("a")>>)]),
        req2  |-> JObj([required |-> JArr(<<JStr("b"), JStr("a")>>)]),
        depB  |-> JObj([dependencies |-> JObj([b |-> JArr(<<JStr("a")>>)])]),
        dep   |-> JObj([dependencies |-> JObj([a |-> JArr(<<JStr("b")>>)])])
      ])
    ])

DocNames ==
    { "Compose", "CycItems", "CycAllOf", "CycLazy", "Chain", "BadRoot",
      "BadEmpty", "BadDef", "BadDefShape", "BadDeep", "BadExclusive",
      "EmptyEnum" }

Document(name) ==
    CASE name = "Compose" -> DocCompose
      [] name = "CycItems" -> DocCycItems
      [] name = "CycAllOf" -> DocCycAllOf
      [] name = "CycLazy" -> DocCycLazy
      [] name = "Chain" -> DocChain
      [] name = "BadRoot" -> DocBadRoot
      [] name = "BadEmpty" -> DocBadEmpty
      [] name = "BadDef" -> DocBadDef
      [] name = "BadDefShape" -> DocBadDefShape
      [] name = "BadDeep" -> DocBadDeep
      [] name = "BadExclusive" -> DocBadExclusive
      [] name = "EmptyEnum" -> DocEmptyEnum
      [] name = "Keywords" -> DocKeywords

RECURSIVE At(_, _)
At(v, path) ==
    IF path = <<>> THEN v
    ELSE IF v.tag = "object" THEN At(v.members[Head(path)], Tail(path))
    ELSE At(v.elems[IdxOf(Head(path)) + 1], Tail(path))

\* The value at a position of the document.
Val(p) == At(m_value, p)

RECURSIVE skip_value_ptr(_)
skip_value_ptr(p) ==
    IF Val(p).tag = "value_ptr" THEN skip_value_ptr(Val(p).target) ELSE p

is_object(p) == Val(p).tag = "object"
is_array(p) == Val(p).tag = "array"
is_boolean(p) == Val(p).tag = "boolean"
is_string(p) == Val(p).tag = "string"

\* basic_value::find on an object: the member's position, or null.
value_find(p, k) == IF k \in DOMAIN Val(p).members THEN p \o <<k>> ELSE NullPtr

\* The positions of the elements of the array at p, as the code takes them
\* (&e.skip_value_ptr()).
Elems(p) ==
    [i \in 1..Len(Val(p).elems) |-> skip_value_ptr(p \o <<Idx(i - 1)>>)]

\* The raw elements of the array at p.
RawElems(p) == [i \in 1..Len(Val(p).elems) |-> p \o <<Idx(i - 1)>>]

MemberKeys(p) == SortedKeys(DOMAIN Val(p).members)

-----------------------------------------------------------------------------
(* schema_node: the compiled form of one sub-schema position.              *)

\* The bits of schema_flags, as a set of names.  The DOUBLE variants of
\* maximum and minimum are both bits of the pair (3 << 11, 3 << 14).
HAS_MAXIMUM == {"HAS_MAXIMUM_SIGNED", "HAS_MAXIMUM_UNSIGNED"}
HAS_MINIMUM == {"HAS_MINIMUM_SIGNED", "HAS_MINIMUM_UNSIGNED"}
HAS_MULTIPLE_OF == {"HAS_MULTIPLE_OF_UNSIGNED", "HAS_MULTIPLE_OF_DOUBLE"}

EmptyNode(p) ==
    [ err |-> "",
      m_value |-> p,
      m_all_of |-> NullPtr, m_any_of |-> NullPtr, m_one_of |-> NullPtr,
      m_not |-> NullPtr, m_items |-> NullPtr, m_additional_items |-> NullPtr,
      m_properties |-> NullPtr, m_additional_properties |-> NullPtr,
      m_property_dependencies |-> <<>>,
      m_schema_dependencies |-> <<>>,
      m_pattern_properties |-> <<>>,
      m_referenced_pointers |-> {},
      m_multiple_of |-> 0, m_maximum |-> 0, m_minimum |-> 0,
      m_max_length |-> 0, m_min_length |-> 0,
      m_pattern |-> <<>>,
      m_max_items |-> 0, m_min_items |-> 0,
      m_max_properties |-> 0, m_min_properties |-> 0,
      m_required |-> {},
      m_flags |-> {},
      m_format |-> "none" ]

\* A throw of std::runtime_error out of the constructor.
Throw(n, msg) == [n EXCEPT !.err = msg]

\* The next keyword is interpreted only if no earlier one threw.
Then(n, Keyword(_)) == IF n.err # "" THEN n ELSE Keyword(n)

AddFlags(n, fs) == [n EXCEPT !.m_flags = @ \cup fs]
AddRefs(n, ps) == [n EXCEPT !.m_referenced_pointers = @ \cup ps]

\* schema_node::find: the member, with value pointers skipped, or null.
find(n, k) ==
    LET m == value_find(n.m_value, k)
    IN  IF m = NullPtr THEN NullPtr ELSE skip_value_ptr(m)

TypeFlag(name) ==
    CASE name = "number" -> "NUMBER"
      [] name = "null" -> "NULL_"
      [] name = "boolean" -> "BOOLEAN"
      [] name = "integer" -> "INTEGER"
      [] name = "string" -> "STRING"
      [] name = "array" -> "ARRAY"
      [] name = "object" -> "OBJECT"
      [] OTHER -> "NONE"

add_type(n, name) ==
    IF TypeFlag(name) = "NONE" THEN Throw(n, "invalid primitive type")
    ELSE IF TypeFlag(name) \in n.m_flags THEN Throw(n, "duplicate primitive type")
    ELSE AddFlags(n, {TypeFlag(name)})

RECURSIVE add_types(_, _, _)
add_types(n, es, i) ==
    IF i > Len(es) \/ n.err # "" THEN n
    ELSE IF ~is_string(es[i])
         THEN Throw(n, "elements in array \"type\" must be of type 'string'")
         ELSE add_types(add_type(n, Val(es[i]).s), es, i + 1)

kw_title(n) ==
    LET p == find(n, "title")
    IN  IF p # NullPtr /\ ~is_string(p)
        THEN Throw(n, "\"title\" must be of type 'string'") ELSE n

kw_description(n) ==
    LET p == find(n, "description")
    IN  IF p # NullPtr /\ ~is_string(p)
        THEN Throw(n, "\"description\" must be of type 'string'") ELSE n

kw_type(n) ==
    LET p == find(n, "type")
        t == CASE is_string(p) -> add_type(n, Val(p).s)
               [] is_array(p) -> add_types(n, RawElems(p), 1)
               [] OTHER -> Throw(n, "\"type\" must be of type 'string' or 'array'")
    IN  IF p = NullPtr THEN n
        ELSE IF t.err # "" THEN t ELSE AddFlags(t, {"HAS_TYPE"})

kw_enum(n) ==
    LET p == find(n, "enum")
    IN  IF p = NullPtr THEN n
        ELSE IF ~is_array(p) THEN Throw(n, "\"enum\" must be of type 'array'")
        ELSE AddFlags(n, {"HAS_ENUM"})

kw_allOf(n) ==
    LET p == find(n, "allOf")
    IN  IF p = NullPtr THEN n
        ELSE IF ~is_array(p) THEN Throw(n, "\"allOf\" must be of type 'array'")
        ELSE IF Val(p).elems = <<>>
             THEN Throw(n, "\"allOf\" must have at least one element")
        ELSE [AddRefs(n, Range(Elems(p))) EXCEPT !.m_all_of = p]

kw_anyOf(n) ==
    LET p == find(n, "anyOf")
    IN  IF p = NullPtr THEN n
        ELSE IF ~is_array(p) THEN Throw(n, "\"anyOf\" must be of type 'array'")
        ELSE IF Val(p).elems = <<>>
             THEN Throw(n, "\"anyOf\" must have at least one element")
        ELSE [AddRefs(n, Range(Elems(p))) EXCEPT !.m_any_of = p]

kw_oneOf(n) ==
    LET p == find(n, "oneOf")
    IN  IF p = NullPtr THEN n
        ELSE IF ~is_array(p) THEN Throw(n, "\"oneOf\" must be of type 'array'")
        ELSE IF Val(p).elems = <<>>
             THEN Throw(n, "\"oneOf\" must have at least one element")
        ELSE [AddRefs(n, Range(Elems(p))) EXCEPT !.m_one_of = p]

kw_not(n) ==
    LET p == find(n, "not")
    IN  IF p = NullPtr THEN n
        ELSE [AddRefs(n, {p}) EXCEPT !.m_not = p]

kw_definitions(n) ==
    LET p == find(n, "definitions")
    IN  IF p = NullPtr THEN n
        ELSE IF ~is_object(p)
             THEN Throw(n, "\"definitions\" must be of type 'object'")
        ELSE AddRefs(n, { skip_value_ptr(p \o <<k>>) : k \in DOMAIN Val(p).members })

IsNumber(p) == Val(p).tag \in {"signed", "unsigned", "double"}

kw_multipleOf(n) ==
    LET p == find(n, "multipleOf")
    IN  IF p = NullPtr THEN n
        ELSE IF ~IsNumber(p)
             THEN Throw(n, "\"multipleOf\" must be of type 'number'")
        ELSE IF Val(p).n <= 0
             THEN Throw(n, "\"multipleOf\" must be strictly greater than zero")
        ELSE [AddFlags(n, IF Val(p).tag = "double"
                          THEN {"HAS_MULTIPLE_OF_DOUBLE"}
                          ELSE {"HAS_MULTIPLE_OF_UNSIGNED"})
                EXCEPT !.m_multiple_of = Val(p).n]

kw_maximum(n) ==
    LET p == find(n, "maximum")
    IN  IF p = NullPtr THEN n
        ELSE IF ~IsNumber(p) THEN Throw(n, "\"maximum\" must be of type 'number'")
        ELSE [AddFlags(n, CASE Val(p).tag = "signed" -> {"HAS_MAXIMUM_SIGNED"}
                            [] Val(p).tag = "unsigned" -> {"HAS_MAXIMUM_UNSIGNED"}
                            [] OTHER -> HAS_MAXIMUM)
                EXCEPT !.m_maximum = Val(p).n]

kw_exclusiveMaximum(n) ==
    LET p == find(n, "exclusiveMaximum")
    IN  IF p = NullPtr THEN n
        ELSE IF ~is_boolean(p)
             THEN Throw(n, "\"exclusiveMaximum\" must be of type 'boolean'")
        ELSE IF n.m_flags \cap HAS_MAXIMUM = {}
             THEN Throw(n, "\"exclusiveMaximum\" requires presence of \"maximum\"")
        ELSE IF Val(p).b THEN AddFlags(n, {"EXCLUSIVE_MAXIMUM"}) ELSE n

kw_minimum(n) ==
    LET p == find(n, "minimum")
    IN  IF p = NullPtr THEN n
        ELSE IF ~IsNumber(p) THEN Throw(n, "\"minimum\" must be of type 'number'")
        ELSE [AddFlags(n, CASE Val(p).tag = "signed" -> {"HAS_MINIMUM_SIGNED"}
                            [] Val(p).tag = "unsigned" -> {"HAS_MINIMUM_UNSIGNED"}
                            [] OTHER -> HAS_MINIMUM)
                EXCEPT !.m_minimum = Val(p).n]

kw_exclusiveMinimum(n) ==
    LET p == find(n, "exclusiveMinimum")
    IN  IF p = NullPtr THEN n
        ELSE IF ~is_boolean(p)
             THEN Throw(n, "\"exclusiveMinimum\" must be of type 'boolean'")
        ELSE IF n.m_flags \cap HAS_MINIMUM = {}
             THEN Throw(n, "\"exclusiveMinimum\" requires presence of \"minimum\"")
        ELSE IF Val(p).b THEN AddFlags(n, {"EXCLUSIVE_MINIMUM"}) ELSE n

IsInteger(p) == Val(p).tag \in {"signed", "unsigned"}

kw_maxLength(n) ==
    LET p == find(n, "maxLength")
    IN  IF p = NullPtr THEN n
        ELSE IF ~IsInteger(p)
             THEN Throw(n, "\"maxLength\" must be of type 'integer'")
        ELSE IF Val(p).n < 0
             THEN Throw(n, "\"maxLength\" must be greater than or equal to zero")
        ELSE [AddFlags(n, {"HAS_MAX_LENGTH"}) EXCEPT !.m_max_length = Val(p).n]

kw_minLength(n) ==
    LET p == find(n, "minLength")
    IN  IF p = NullPtr THEN n
        ELSE IF ~IsInteger(p)
             THEN Throw(n, "\"minLength\" must be of type 'integer'")
        ELSE IF Val(p).n < 0
             THEN Throw(n, "\"minLength\" must be greater than or equal to zero")
        ELSE IF Val(p).n > 0
             THEN [AddFlags(n, {"HAS_MIN_LENGTH"}) EXCEPT !.m_min_length = Val(p).n]
        ELSE n

\* std::regex: the patterns the documents of the model use.  The constructor
\* of std::regex throws std::regex_error on "(".
RegexCompiles(pat) == pat # "("

\* std::regex_search of a pattern in a text (a sequence of bytes).
regex_search(text, pat) ==
    CASE pat = "a" -> \E i \in 1..Len(text) : text[i] = 97
      [] pat = "b" -> \E i \in 1..Len(text) : text[i] = 98
      [] pat = "^b" -> Len(text) > 0 /\ text[1] = 98
      [] OTHER -> FALSE

kw_pattern(n) ==
    LET p == find(n, "pattern")
    IN  IF p = NullPtr THEN n
        ELSE IF ~is_string(p) THEN Throw(n, "\"pattern\" must be of type 'string'")
        ELSE IF ~RegexCompiles(Val(p).s)
             THEN Throw(n, "\"pattern\" must be a regular expression")
        ELSE [n EXCEPT !.m_pattern = <<Val(p).s>>]

kw_format(n) ==
    LET p == find(n, "format")
    IN  IF p = NullPtr THEN n
        ELSE IF ~is_string(p) THEN Throw(n, "\"format\" must be of type 'string'")
        ELSE IF Val(p).s \in {"date-time", "email", "hostname", "ipv4", "ipv6", "uri"}
             THEN [n EXCEPT !.m_format = Val(p).s]
        ELSE n

kw_items(n) ==
    LET p == find(n, "items")
    IN  IF p = NullPtr THEN n
        ELSE IF is_array(p)
             THEN [AddRefs(n, Range(Elems(p))) EXCEPT !.m_items = p]
        ELSE IF is_object(p) THEN [AddRefs(n, {p}) EXCEPT !.m_items = p]
        ELSE Throw(n, "\"items\" must be of type 'object' or 'array'")

kw_additionalItems(n) ==
    LET p == find(n, "additionalItems")
    IN  IF p = NullPtr THEN n
        ELSE IF is_object(p)
             THEN [AddRefs(n, {p}) EXCEPT !.m_additional_items = p]
        ELSE IF ~is_boolean(p)
             THEN Throw(n, "\"additionalItems\" must be of type 'boolean' or 'object'")
        ELSE [n EXCEPT !.m_additional_items = p]

kw_maxItems(n) ==
    LET p == find(n, "maxItems")
    IN  IF p = NullPtr THEN n
        ELSE IF ~IsInteger(p) THEN Throw(n, "\"maxItems\" must be of type 'integer'")
        ELSE IF Val(p).n < 0
             THEN Throw(n, "\"maxItems\" must be greater than or equal to zero")
        ELSE [AddFlags(n, {"HAS_MAX_ITEMS"}) EXCEPT !.m_max_items = Val(p).n]

kw_minItems(n) ==
    LET p == find(n, "minItems")
    IN  IF p = NullPtr THEN n
        ELSE IF ~IsInteger(p) THEN Throw(n, "\"minItems\" must be of type 'integer'")
        ELSE IF Val(p).n < 0
             THEN Throw(n, "\"minItems\" must be greater than or equal to zero")
        ELSE [AddFlags(n, {"HAS_MIN_ITEMS"}) EXCEPT !.m_min_items = Val(p).n]

\* get_boolean() throws on a value that is no boolean.
kw_uniqueItems(n) ==
    LET p == find(n, "uniqueItems")
    IN  IF p = NullPtr THEN n
        ELSE IF ~is_boolean(p) THEN Throw(n, "bad variant access")
        ELSE IF Val(p).b THEN AddFlags(n, {"HAS_UNIQUE_ITEMS"}) ELSE n

kw_maxProperties(n) ==
    LET p == find(n, "maxProperties")
    IN  IF p = NullPtr THEN n
        ELSE IF ~IsInteger(p)
             THEN Throw(n, "\"maxProperties\" must be of type 'integer'")
        ELSE IF Val(p).n < 0
             THEN Throw(n, "\"maxProperties\" must be greater than or equal to zero")
        ELSE [AddFlags(n, {"HAS_MAX_PROPERTIES"}) EXCEPT !.m_max_properties = Val(p).n]

kw_minProperties(n) ==
    LET p == find(n, "minProperties")
    IN  IF p = NullPtr THEN n
        ELSE IF ~IsInteger(p)
             THEN Throw(n, "\"minProperties\" must be of type 'integer'")
        ELSE IF Val(p).n < 0
             THEN Throw(n, "\"minProperties\" must be greater than or equal to zero")
        ELSE [AddFlags(n, {"HAS_MIN_PROPERTIES"}) EXCEPT !.m_min_properties = Val(p).n]

\* The strings of the raw elements es, or a throw: get_string() throws on an
\* element that is no string, and a repeated string is rejected.
RECURSIVE unique_strings(_, _, _, _, _)
unique_strings(n, es, i, acc, dup) ==
    IF i > Len(es) THEN [n |-> n, set |-> acc]
    ELSE IF ~is_string(es[i]) THEN [n |-> Throw(n, "bad variant access"), set |-> acc]
    ELSE IF Val(es[i]).s \in acc THEN [n |-> Throw(n, dup), set |-> acc]
    ELSE unique_strings(n, es, i + 1, acc \cup {Val(es[i]).s}, dup)

kw_required(n) ==
    LET p == find(n, "required")
        r == unique_strings(n, RawElems(p), 1, {}, "duplicate required key")
    IN  IF p = NullPtr THEN n
        ELSE IF ~is_array(p) THEN Throw(n, "\"required\" must be of type 'array'")
        ELSE IF Val(p).elems = <<>>
             THEN Throw(n, "\"required\" must have at least one element")
        ELSE IF r.n.err # "" THEN r.n
        ELSE [n EXCEPT !.m_required = r.set]

kw_properties(n) ==
    LET p == find(n, "properties")
    IN  IF p = NullPtr THEN n
        ELSE IF ~is_object(p)
             THEN Throw(n, "\"properties\" must be of type 'object'")
        ELSE [AddRefs(n, { skip_value_ptr(p \o <<k>>) : k \in DOMAIN Val(p).members })
                EXCEPT !.m_properties = p]

kw_patternProperties(n) ==
    LET p == find(n, "patternProperties")
        ks == MemberKeys(p)
    IN  IF p = NullPtr THEN n
        ELSE IF ~is_object(p)
             THEN Throw(n, "\"patternProperties\" must be of type 'object'")
        ELSE IF \E k \in DOMAIN Val(p).members : ~RegexCompiles(k)
             THEN Throw(n, "keys in object \"patternProperties\" must be regular expressions")
        ELSE [AddRefs(n, { skip_value_ptr(p \o <<k>>) : k \in DOMAIN Val(p).members })
                EXCEPT !.m_pattern_properties =
                    [i \in 1..Len(ks) |->
                        [regex |-> ks[i], schema |-> skip_value_ptr(p \o <<ks[i]>>)]]]

kw_additionalProperties(n) ==
    LET p == find(n, "additionalProperties")
    IN  IF p = NullPtr THEN n
        ELSE IF is_object(p)
             THEN [AddRefs(n, {p}) EXCEPT !.m_additional_properties = p]
        ELSE IF ~is_boolean(p)
             THEN Throw(n, "\"additionalProperties\" must be of type 'boolean' or 'object'")
        ELSE [n EXCEPT !.m_additional_properties = p]

\* One member of "dependencies": a sub-schema or a set of co-required keys.
dependency(n, p, k) ==
    LET p2 == skip_value_ptr(p \o <<k>>)
        r == unique_strings(n, RawElems(p2), 1, {},
                 "values in object \"dependencies\" of type 'array' must contain unique elements")
    IN  IF is_object(p2)
        THEN [AddRefs(n, {p2}) EXCEPT !.m_schema_dependencies = (k :> p2) @@ @]
        ELSE IF is_array(p2)
        THEN IF Val(p2).elems = <<>>
             THEN Throw(n, "values in object \"dependencies\" of type 'array' must have at least one element")
             ELSE IF \E i \in 1..Len(RawElems(p2)) : ~is_string(RawElems(p2)[i])
             THEN Throw(n, "values in object \"dependencies\" of type 'array' must contain elements of type 'string'")
             ELSE IF r.n.err # "" THEN r.n
             ELSE [n EXCEPT !.m_property_dependencies = (k :> r.set) @@ @]
        ELSE Throw(n, "values in object \"dependencies\" must be of type 'object' or 'array'")

RECURSIVE dependencies(_, _, _, _)
dependencies(n, p, ks, i) ==
    IF i > Len(ks) \/ n.err # "" THEN n
    ELSE dependencies(dependency(n, p, ks[i]), p, ks, i + 1)

kw_dependencies(n) ==
    LET p == find(n, "dependencies")
    IN  IF p = NullPtr THEN n
        ELSE IF ~is_object(p)
             THEN Throw(n, "\"dependencies\" must be of type 'object'")
        ELSE Then(dependencies(n, p, MemberKeys(p), 1),
                  LAMBDA d : IF DOMAIN Val(p).members # {}
                             THEN AddFlags(d, {"HAS_DEPENDENCIES"}) ELSE d)

\* The constructor of schema_node: its keywords in the order of the code.
keyword(n, i) ==
    CASE i = 1 -> kw_title(n)
      [] i = 2 -> kw_description(n)
      [] i = 3 -> kw_type(n)
      [] i = 4 -> kw_enum(n)
      [] i = 5 -> kw_allOf(n)
      [] i = 6 -> kw_anyOf(n)
      [] i = 7 -> kw_oneOf(n)
      [] i = 8 -> kw_not(n)
      [] i = 9 -> kw_definitions(n)
      [] i = 10 -> kw_multipleOf(n)
      [] i = 11 -> kw_maximum(n)
      [] i = 12 -> kw_exclusiveMaximum(n)
      [] i = 13 -> kw_minimum(n)
      [] i = 14 -> kw_exclusiveMinimum(n)
      [] i = 15 -> kw_maxLength(n)
      [] i = 16 -> kw_minLength(n)
      [] i = 17 -> kw_pattern(n)
      [] i = 18 -> kw_format(n)
      [] i = 19 -> kw_items(n)
      [] i = 20 -> kw_additionalItems(n)
      [] i = 21 -> kw_maxItems(n)
      [] i = 22 -> kw_minItems(n)
      [] i = 23 -> kw_uniqueItems(n)
      [] i = 24 -> kw_maxProperties(n)
      [] i = 25 -> kw_minProperties(n)
      [] i = 26 -> kw_required(n)
      [] i = 27 -> kw_properties(n)
      [] i = 28 -> kw_patternProperties(n)
      [] i = 29 -> kw_additionalProperties(n)
      [] i = 30 -> kw_dependencies(n)

\* The body of the constructor from its i-th keyword on: a throw ends it.
RECURSIVE keywords(_, _)
keywords(n, i) ==
    IF i > 30 \/ n.err # "" THEN n ELSE keywords(keyword(n, i), i + 1)

schema_node(p) ==
    IF ~is_object(p)
    THEN Throw(EmptyNode(p), "a schema must be of type 'object'")
    ELSE keywords(EmptyNode(p), 1)

referenced_pointers(n) == n.m_referenced_pointers

-----------------------------------------------------------------------------
(* Events (the consumer interface of tao::json::events).                   *)

Ev(k) == [k |-> k, b |-> FALSE, t |-> "-", n |-> 0, s |-> <<>>, key |-> ""]
EvBoolean(b) == [Ev("boolean") EXCEPT !.b = b]
\* t: "i" for std::int64_t, "u" for std::uint64_t, "d" for double.
EvNumber(t, n) == [Ev("number") EXCEPT !.t = t, !.n = n]
\* The payload of a string event is its sequence of bytes.
EvString(s) == [Ev("string") EXCEPT !.s = s]
EvKey(k) == [Ev("key") EXCEPT !.key = k]

\* The bytes of the strings of the documents and of the keys.
Bytes(str) ==
    CASE str = "a" -> <<97>>
      [] str = "b" -> <<98>>
      [] str = "ba" -> <<98, 97>>
      [] str = "#" -> <<35>>
      [] str = "#/a" -> <<35, 47, 97>>
      [] str = "#/s" -> <<35, 47, 115>>
      [] str = "#/t" -> <<35, 47, 116>>
      [] str = "#/z" -> <<35, 47, 122>>
      [] str = "#/a/x" -> <<35, 47, 97, 47, 120>>
      [] str = "#/z/x" -> <<35, 47, 122, 47, 120>>
      [] str = "bb" -> <<98, 98>>
      [] OTHER -> <<63>>

\* The values the producer delivers as scalars, and the keys of its objects.
Booleans == {TRUE}
Numbers == {EvNumber("i", 1)}
Strings == {<<97>>, <<98, 98>>}
Keys == {"a", "b"}

-----------------------------------------------------------------------------
(* schema_consumer: one validation session.                                *)

NewSession(p) ==
    [ m_node |-> p,
      fault |-> "none",
      m_enum |-> <<>>,
      m_hash |-> <<>>,
      m_unique |-> {},
      m_keys |-> {},
      m_count |-> <<>>,
      m_properties |-> <<>>,
      m_all_of |-> <<>>,
      m_any_of |-> <<>>,
      m_one_of |-> <<>>,
      m_schema_dependencies |-> <<>>,
      m_not |-> <<>>,
      m_item |-> <<>>,
      m_match |-> TRUE ]

\* A session whose construction did not return: consumer() threw
\* std::logic_error, or the constructors recursed without end.
Faulted(p, how) == [NewSession(p) EXCEPT !.fault = how]

Node(s) == nodes[s.m_node]
Flags(s) == nodes[s.m_node].m_flags
Fail(s) == [s EXCEPT !.m_match = FALSE]
FailIf(s, failed) == IF failed THEN Fail(s) ELSE s
\* A step of a handler that is guarded by IF_( m_match ).
When(s, Step(_)) == IF s.m_match THEN Step(s) ELSE s

\* The events events::from_value produces for a value of the document (an
\* enum literal).
RECURSIVE from_value(_)
from_value(v) ==
    CASE v.tag = "null" -> <<Ev("null")>>
      [] v.tag = "boolean" -> <<EvBoolean(v.b)>>
      [] v.tag = "signed" -> <<EvNumber("i", v.n)>>
      [] v.tag = "unsigned" -> <<EvNumber("u", v.n)>>
      [] v.tag = "double" -> <<EvNumber("d", v.n)>>
      [] v.tag = "string" -> <<EvString(Bytes(v.s))>>
      [] v.tag = "array" ->
           LET F[i \in 0..Len(v.elems)] ==
                   IF i = 0 THEN <<Ev("begin_array")>>
                   ELSE F[i - 1] \o from_value(v.elems[i]) \o <<Ev("element")>>
           IN  F[Len(v.elems)] \o <<Ev("end_array")>>
      [] v.tag = "object" ->
           LET ks == SortedKeys(DOMAIN v.members)
               F[i \in 0..Len(ks)] ==
                   IF i = 0 THEN <<Ev("begin_object")>>
                   ELSE F[i - 1] \o <<EvKey(ks[i])>> \o from_value(v.members[ks[i]])
                            \o <<Ev("member")>>
           IN  F[Len(ks)] \o <<Ev("end_object")>>

\* Two events that describe the same thing: numbers compare by value
\* whatever their representation.
SameEvent(e, f) ==
    /\ e.k = f.k
    /\ e.b = f.b
    /\ e.n = f.n
    /\ e.s = f.s
    /\ e.key = f.key

\* events_compare: a candidate literal compared event by event with the
\* value streamed: the events still expected of it, and match().
Comparator(v) == [expect |-> from_value(v), match |-> TRUE]

compare(c, e) ==
    IF c.match /\ c.expect # <<>> /\ SameEvent(Head(c.expect), e)
    THEN [c EXCEPT !.expect = Tail(@)]
    ELSE [c EXCEPT !.match = FALSE]

\* events::hash: the events fed since the last reset; value() is taken of
\* them.
hash_feed(s, e) == [s EXCEPT !.m_hash = <<@[1] \o <<e>>>>]
WhenHash(s, e) == IF s.m_match /\ s.m_hash # <<>> THEN hash_feed(s, e) ELSE s

\* The events of each element of the array, or of each member of the
\* object with its key first, whose events are evs.
RECURSIVE Split(_, _, _, _, _)
Split(evs, i, depth, cur, acc) ==
    IF i >= Len(evs) THEN acc
    ELSE IF depth = 0 /\ evs[i].k \in {"element", "member"}
         THEN Split(evs, i + 1, 0, <<>>, Append(acc, cur))
    ELSE Split(evs, i + 1,
               depth + (IF evs[i].k \in {"begin_array", "begin_object"} THEN 1
                        ELSE IF evs[i].k \in {"end_array", "end_object"} THEN -1
                        ELSE 0),
               Append(cur, evs[i]), acc)
Parts(evs) == Split(evs, 2, 0, <<>>, <<>>)

\* events::hash::value: equal for two values exactly when they are equal
\* whatever the order of the keys of their objects, taken here as the
\* events of the value with the members of every object in key order and
\* the numbers without their representation.
RECURSIVE Joined(_, _)
Joined(parts, closing) ==
    IF parts = <<>> THEN <<>>
    ELSE Head(parts) \o <<closing>> \o Joined(Tail(parts), closing)

KeyOf(part) == IF part # <<>> /\ part[1].k = "key" THEN part[1].key ELSE ""

ByKey(parts) ==
    LET Ordered == SelectSeq(KeyOrder, LAMBDA k : \E i \in 1..Len(parts) : KeyOf(parts[i]) = k)
        Pick(k) == SelectSeq(parts, LAMBDA x : KeyOf(x) = k)
        RECURSIVE Gather(_)
        Gather(ks) == IF ks = <<>> THEN <<>> ELSE Pick(Head(ks)) \o Gather(Tail(ks))
    IN  Gather(Ordered)
        \o SelectSeq(parts, LAMBDA x : \A i \in 1..Len(KeyOrder) : KeyOf(x) # KeyOrder[i])

RECURSIVE hash_value(_)
hash_value(evs) ==
    IF evs = <<>> THEN <<>>
    ELSE IF evs[1].k = "begin_array" /\ Len(evs) > 1
    THEN <<evs[1]>>
         \o Joined([i \in 1..Len(Parts(evs)) |-> hash_value(Parts(evs)[i])], Ev("element"))
         \o <<evs[Len(evs)]>>
    ELSE IF evs[1].k = "begin_object" /\ Len(evs) > 1
    THEN <<evs[1]>>
         \o Joined([i \in 1..Len(Parts(evs)) |->
                       IF KeyOf(ByKey(Parts(evs))[i]) = ""
                       THEN ByKey(Parts(evs))[i]
                       ELSE <<Head(ByKey(Parts(evs))[i])>>
                            \o hash_value(Tail(ByKey(Parts(evs))[i]))],
                   Ev("member"))
         \o <<evs[Len(evs)]>>
    ELSE [i \in 1..Len(evs) |-> [evs[i] EXCEPT !.t = "-"]]

\* schema_container::consumer and the constructor of schema_consumer, which
\* calls it for every allOf, anyOf, oneOf, not and schema dependency of its
\* node.  `building` holds the positions whose constructors are on the call
\* stack: a constructor that reaches its own position again recurses
\* without end and exhausts the stack.
RECURSIVE consumer_in(_, _)
consumer_in(p, building) ==
    IF p \notin DOMAIN nodes THEN Faulted(p, "logic_error")
    ELSE IF p \in building THEN Faulted(p, "stack_overflow")
    ELSE
    LET n == nodes[p]
        inner == building \cup {p}
        each(q) == [i \in 1..Len(Elems(q)) |-> consumer_in(Elems(q)[i], inner)]
        deps == SortedKeys(DOMAIN n.m_schema_dependencies)
    IN  [ NewSession(p) EXCEPT
            !.m_enum = IF "HAS_ENUM" \in n.m_flags
                       THEN [i \in 1..Len(Val(p \o <<"enum">>).elems) |->
                                Comparator(Val(p \o <<"enum">>).elems[i])]
                       ELSE <<>>,
            !.m_all_of = IF n.m_all_of # NullPtr THEN each(n.m_all_of) ELSE <<>>,
            !.m_any_of = IF n.m_any_of # NullPtr THEN each(n.m_any_of) ELSE <<>>,
            !.m_one_of = IF n.m_one_of # NullPtr THEN each(n.m_one_of) ELSE <<>>,
            !.m_not = IF n.m_not # NullPtr THEN <<consumer_in(n.m_not, inner)>> ELSE <<>>,
            !.m_schema_dependencies =
                [i \in 1..Len(deps) |->
                    [key |-> deps[i],
                     c |-> consumer_in(n.m_schema_dependencies[deps[i]], inner)]] ]

\* A container that hands out the session it made before for the position.
cached_consumer(p) ==
    IF phase = "finalized" /\ p \in DOMAIN sess THEN sess[p] ELSE consumer_in(p, {})

consumer(p) == consumer_in(p, {})

\* Every session a session owns.
Children(s) ==
    s.m_item \o s.m_properties \o s.m_all_of \o s.m_any_of \o s.m_one_of \o s.m_not
    \o [i \in 1..Len(s.m_schema_dependencies) |-> s.m_schema_dependencies[i].c]

\* How the call that produced the session tree ended: "none" if it returned.
RECURSIVE TreeFault(_)
TreeFault(s) ==
    IF s.fault # "none" THEN s.fault
    ELSE LET fs == { TreeFault(Children(s)[i]) : i \in 1..Len(Children(s)) } \ {"none"}
         IN  IF fs = {} THEN "none" ELSE CHOOSE f \in fs : TRUE

\* The type is tested whatever is open.
validate_type_at_any_depth(s, t) ==
    IF "HAS_TYPE" \notin Flags(s) THEN s
    ELSE IF Flags(s) \cap t = {} THEN Fail(s)
    ELSE s

validate_type(s, t) ==
    IF s.m_count # <<>> THEN s
    ELSE IF "HAS_TYPE" \notin Flags(s) THEN s
    ELSE IF Flags(s) \cap t = {} THEN Fail(s)
    ELSE s

\* An enum whose failing candidate is compared from its start again.
validate_enum_readmitting(s, e) ==
    IF "HAS_ENUM" \in Flags(s)
    THEN LET fed == [i \in 1..Len(s.m_enum) |-> compare(s.m_enum[i], e)]
             kept == SelectSeq(fed, LAMBDA c : c.match)
             again == [i \in 1..Len(Val(s.m_node \o <<"enum">>).elems) |->
                          Comparator(Val(s.m_node \o <<"enum">>).elems[i])]
         IN  [s EXCEPT !.m_enum = IF Len(kept) < Len(fed) THEN kept \o again ELSE kept,
                       !.m_match = IF kept = <<>> THEN FALSE ELSE @]
    ELSE s

\* assert( m_match ): a helper entered by a session that no longer matches
\* stops the program.
asserted(s) == [s EXCEPT !.fault = "assertion"]

validate_enum(s, e) ==
    IF ~s.m_match THEN asserted(s)
    ELSE IF "HAS_ENUM" \in Flags(s)
    THEN LET fed == [i \in 1..Len(s.m_enum) |-> compare(s.m_enum[i], e)]
             kept == SelectSeq(fed, LAMBDA c : c.match)
         IN  [s EXCEPT !.m_enum = kept,
                       !.m_match = IF kept = <<>> THEN FALSE ELSE @]
    ELSE s

\* The handler of each event; defined below, after the helpers that forward
\* the event to the sessions a session owns.
RECURSIVE On(_, _)

\* The event given to the sessions cs in turn, up to the first that fails.
RECURSIVE until_failure(_, _, _)
until_failure(cs, e, i) ==
    IF i > Len(cs) THEN [cs |-> cs, failed |-> FALSE]
    ELSE LET c == On(cs[i], e)
         IN  IF ~c.m_match THEN [cs |-> [cs EXCEPT ![i] = c], failed |-> TRUE]
             ELSE until_failure([cs EXCEPT ![i] = c], e, i + 1)

\* The first session that fails on the event is erased and those after it
\* do not get the event.
survivors_stopping(cs, e) ==
    LET fed == [i \in 1..Len(cs) |-> On(cs[i], e)]
        failing == { i \in 1..Len(cs) : ~fed[i].m_match }
        reached(i) == \A j \in failing : i <= j
    IN  SelectSeq([i \in 1..Len(cs) |-> IF reached(i) THEN fed[i] ELSE cs[i]],
                  LAMBDA c : c.m_match)

\* A session is kept while it matches; one whose handler did not return has
\* stopped the program and is kept as it stopped.
alive(c) == c.m_match \/ TreeFault(c) # "none"

\* std::remove_if with the event as predicate: every session gets the event
\* and those that fail are erased.
survivors(cs, e) ==
    SelectSeq([i \in 1..Len(cs) |-> On(cs[i], e)], LAMBDA c : alive(c))

validate_item(s, e) ==
    IF s.m_item # <<>>
    THEN LET c == On(s.m_item[1], e)
         IN  [s EXCEPT !.m_item = <<c>>, !.m_match = IF ~c.m_match THEN FALSE ELSE @]
    ELSE s

validate_properties(s, e) ==
    LET r == until_failure(s.m_properties, e, 1)
    IN  [s EXCEPT !.m_properties = r.cs, !.m_match = IF r.failed THEN FALSE ELSE @]

\* Only the branches whose key the object has shown get the event.
validate_schema_dependencies_of_seen_keys(s, e) ==
    LET fed == [i \in 1..Len(s.m_schema_dependencies) |->
                   IF s.m_schema_dependencies[i].key \in s.m_keys
                   THEN [s.m_schema_dependencies[i] EXCEPT !.c = On(@, e)]
                   ELSE s.m_schema_dependencies[i]]
    IN  [s EXCEPT !.m_schema_dependencies = SelectSeq(fed, LAMBDA d : d.c.m_match)]

validate_schema_dependencies(s, e) ==
    LET fed == [i \in 1..Len(s.m_schema_dependencies) |->
                   [s.m_schema_dependencies[i] EXCEPT !.c = On(@, e)]]
    IN  [s EXCEPT !.m_schema_dependencies = SelectSeq(fed, LAMBDA d : alive(d.c))]

\* An allOf that drops a failing branch the way anyOf does.
validate_all_of_dropping(s, e) ==
    [s EXCEPT !.m_all_of = survivors(s.m_all_of, e)]

validate_all_of(s, e) ==
    LET r == until_failure(s.m_all_of, e, 1)
    IN  [s EXCEPT !.m_all_of = r.cs, !.m_match = IF r.failed THEN FALSE ELSE @]

\* An anyOf that fails as soon as one of its branches does.
validate_any_of_strict(s, e) ==
    IF s.m_any_of # <<>>
    THEN LET kept == survivors(s.m_any_of, e)
         IN  [s EXCEPT !.m_any_of = kept,
                       !.m_match = IF Len(kept) < Len(s.m_any_of) THEN FALSE ELSE @]
    ELSE s

validate_any_of(s, e) ==
    IF s.m_any_of # <<>>
    THEN LET kept == survivors(s.m_any_of, e)
         IN  [s EXCEPT !.m_any_of = kept, !.m_match = IF kept = <<>> THEN FALSE ELSE @]
    ELSE s

validate_one_of(s, e) ==
    IF s.m_one_of # <<>>
    THEN LET kept == survivors(s.m_one_of, e)
         IN  [s EXCEPT !.m_one_of = kept, !.m_match = IF kept = <<>> THEN FALSE ELSE @]
    ELSE s

\* A `not` whose failing branch fails the session that owns it.
validate_not_failing(s, e) ==
    IF s.m_not # <<>>
    THEN LET c == On(s.m_not[1], e)
         IN  [s EXCEPT !.m_not = IF ~c.m_match THEN <<>> ELSE <<c>>,
                       !.m_match = IF ~c.m_match THEN FALSE ELSE @]
    ELSE s

validate_not(s, e) ==
    IF s.m_not # <<>>
    THEN LET c == On(s.m_not[1], e)
         IN  [s EXCEPT !.m_not = IF ~alive(c) THEN <<>> ELSE <<c>>]
    ELSE s

\* A handler that did not return in a session the session owns did not
\* return in the session either.
raised(s) == [s EXCEPT !.fault = TreeFault(s)]

validate_collections(s, e) ==
    IF ~s.m_match THEN asserted(s) ELSE
    LET s1 == When(s, LAMBDA x : validate_item(x, e))
        s2 == When(s1, LAMBDA x : validate_properties(x, e))
        s3 == When(s2, LAMBDA x : validate_all_of(x, e))
        s4 == When(s3, LAMBDA x : validate_any_of(x, e))
        s5 == When(s4, LAMBDA x : validate_one_of(x, e))
        s6 == When(s5, LAMBDA x : validate_not(x, e))
    IN  raised(When(s6, LAMBDA x : validate_schema_dependencies(x, e)))

\* std::fmod of two whole numbers: the remainder has the sign of v.
fmod(v, d) == IF v < 0 THEN -((-v) % d) ELSE v % d

\* With whole numbers |r| and |r - d| are below epsilon only when they are 0.
is_multiple_of(v, d) == fmod(v, d) = 0 \/ fmod(v, d) - d = 0

\* std::int64_t and std::uint64_t, narrowed to Width bits, and
\* static_cast< std::uint64_t > of a std::int64_t.
Width == 3
Int64 == (0 - 2^(Width - 1)) .. (2^(Width - 1) - 1)
UInt64 == 0 .. (2^Width - 1)
to_unsigned(i) == i % (2^Width)

\* What a build does when the negation of a std::int64_t overflows, which
\* the language leaves undefined: the value wraps around, or the program
\* is stopped (-ftrapv, a sanitizer).
Builds == {"wraps", "traps"}

\* -v of a std::int64_t where it is defined, and where the value wraps.
Overflows(v) == (0 - v) \notin Int64
negate(v) == IF Overflows(v) THEN (0 - v) - 2^Width ELSE 0 - v

validate_multiple_of(s, e) ==
    IF "HAS_MULTIPLE_OF_UNSIGNED" \in Flags(s) /\ "HAS_MULTIPLE_OF_DOUBLE" \notin Flags(s)
    THEN IF e.t = "d"
         THEN IF ~is_multiple_of(e.n, Node(s).m_multiple_of) THEN Fail(s) ELSE s
         ELSE IF e.n < 0
              THEN IF Overflows(e.n) /\ build = "traps"
                   THEN [s EXCEPT !.fault = "overflow"]
                   ELSE IF to_unsigned(negate(e.n)) % Node(s).m_multiple_of # 0
                        THEN Fail(s) ELSE s
              ELSE IF e.n % Node(s).m_multiple_of # 0 THEN Fail(s) ELSE s
    ELSE IF "HAS_MULTIPLE_OF_DOUBLE" \in Flags(s) /\ "HAS_MULTIPLE_OF_UNSIGNED" \notin Flags(s)
    THEN IF ~is_multiple_of(e.n, Node(s).m_multiple_of) THEN Fail(s) ELSE s
    ELSE s

\* The switch on the maximum flags with the sign of a signed value left
\* untested before it is converted.
above_maximum_wrapping(s, e) ==
    LET f == Flags(s) \cap (HAS_MAXIMUM \cup {"EXCLUSIVE_MAXIMUM"})
        m == Node(s).m_maximum
        ex == "EXCLUSIVE_MAXIMUM" \in f
        kind == f \ {"EXCLUSIVE_MAXIMUM"}
        over(v, b) == IF ex THEN v >= b ELSE v > b
    IN  CASE kind = {} -> FALSE
          [] kind = {"HAS_MAXIMUM_SIGNED"} ->
               IF e.t = "u" THEN m < 0 \/ over(e.n, to_unsigned(m)) ELSE over(e.n, m)
          [] kind = {"HAS_MAXIMUM_UNSIGNED"} ->
               IF e.t = "i" THEN over(to_unsigned(e.n), m) ELSE over(e.n, m)
          [] OTHER -> over(e.n, m)

\* The switch on the maximum flags: v against the bound by representation.
above_maximum(s, e) ==
    LET f == Flags(s) \cap (HAS_MAXIMUM \cup {"EXCLUSIVE_MAXIMUM"})
        m == Node(s).m_maximum
        ex == "EXCLUSIVE_MAXIMUM" \in f
        kind == f \ {"EXCLUSIVE_MAXIMUM"}
        over(v, b) == IF ex THEN v >= b ELSE v > b
    IN  CASE kind = {} -> FALSE
          [] kind = {"HAS_MAXIMUM_SIGNED"} ->
               IF e.t = "u" THEN m < 0 \/ over(e.n, to_unsigned(m)) ELSE over(e.n, m)
          [] kind = {"HAS_MAXIMUM_UNSIGNED"} ->
               IF e.t = "i" THEN e.n >= 0 /\ over(to_unsigned(e.n), m) ELSE over(e.n, m)
          [] OTHER -> over(e.n, m)

below_minimum(s, e) ==
    LET f == Flags(s) \cap (HAS_MINIMUM \cup {"EXCLUSIVE_MINIMUM"})
        m == Node(s).m_minimum
        ex == "EXCLUSIVE_MINIMUM" \in f
        kind == f \ {"EXCLUSIVE_MINIMUM"}
        under(v, b) == IF ex THEN v <= b ELSE v < b
    IN  CASE kind = {} -> FALSE
          [] kind = {"HAS_MINIMUM_SIGNED"} ->
               IF e.t = "u" THEN m >= 0 /\ under(e.n, to_unsigned(m)) ELSE under(e.n, m)
          [] kind = {"HAS_MINIMUM_UNSIGNED"} ->
               IF e.t = "i" THEN e.n < 0 \/ under(to_unsigned(e.n), m) ELSE under(e.n, m)
          [] OTHER -> under(e.n, m)

validate_number(s, e) ==
    FailIf(FailIf(validate_multiple_of(s, e), above_maximum(s, e)), below_minimum(s, e))

\* A byte counts unless it is a UTF-8 continuation byte (10xxxxxx).
unicode_size(v) == Cardinality({ i \in 1..Len(v) : ~(v[i] \in 128..191) })

\* The format recognizers on the strings of the model: of "a" and "bb" only
\* the hostname grammar accepts any.
\* A decimal digit, and v[ i ] - '0' of one.
is_digit(c) == c \in 48..57
digit(c) == c - 48

\* The bytes of a text are [+-]\d{2}:[0-5]\d, or Z.
zone_shape(z) ==
    \/ z = <<90>>
    \/ /\ Len(z) = 6
       /\ z[1] \in {43, 45}
       /\ is_digit(z[2]) /\ is_digit(z[3])
       /\ z[4] = 58
       /\ z[5] \in 48..53 /\ is_digit(z[6])

\* std::regex_search of
\* ^\d{4}-\d{2}-\d{2}T\d{2}:[0-5]\d:[0-5]\d(\.\d+)?(Z|[+-]\d{2}:[0-5]\d)$
\* in v: the zone begins at the 20th byte, or after a point and one digit
\* or more.
date_time_shape(v) ==
    /\ Len(v) >= 20
    /\ \A i \in {1, 2, 3, 4, 6, 7, 9, 10, 12, 13, 16, 19} : is_digit(v[i])
    /\ v[5] = 45 /\ v[8] = 45 /\ v[11] = 84 /\ v[14] = 58 /\ v[17] = 58
    /\ v[15] \in 48..53 /\ v[18] \in 48..53
    /\ \E k \in 20..Len(v) :
           /\ \/ k = 20
              \/ k >= 22 /\ v[20] = 46 /\ \A i \in 21..(k - 1) : is_digit(v[i])
           /\ zone_shape(SubSeq(v, k, Len(v)))

\* A leap year every fourth year.
is_leap_year_every_fourth(year) == year % 4 = 0

is_leap_year(year) == year % 4 = 0 /\ (year % 100 # 0 \/ year % 400 = 0)

\* internal::parse_date_time; v[ i ] of the code is v[i + 1] here.
parse_date_time(v) ==
    IF ~date_time_shape(v) THEN FALSE
    ELSE LET year == digit(v[1]) * 1000 + digit(v[2]) * 100 + digit(v[3]) * 10 + digit(v[4])
             month == digit(v[6]) * 10 + digit(v[7])
             day == digit(v[9]) * 10 + digit(v[10])
             hour == digit(v[12]) * 10 + digit(v[13])
             tz_hour == digit(v[Len(v) - 4]) * 10 + digit(v[Len(v) - 3])
         IN  IF month = 0 \/ month > 12 THEN FALSE
             ELSE IF day = 0 \/ day > 31 THEN FALSE
             ELSE IF month = 2 /\ day > (IF is_leap_year(year) THEN 29 ELSE 28) THEN FALSE
             ELSE IF month # 2 /\ day = 31 /\ month \in {4, 6, 9, 11} THEN FALSE
             ELSE IF hour >= 24 THEN FALSE
             ELSE IF v[Len(v)] # 90 /\ tz_hour >= 24 THEN FALSE
             ELSE TRUE

\* The switch on m_format in validate_string: the formats of the documents
\* of the model.
format_accepts(format, v) ==
    CASE format = "date-time" -> parse_date_time(v)
      [] format = "hostname" -> Len(v) > 0 /\ Len(v) <= 255
      [] OTHER -> FALSE

validate_string(s, e) ==
    LET n == Node(s)
        s1 == FailIf(s, "HAS_MAX_LENGTH" \in n.m_flags /\ unicode_size(e.s) > n.m_max_length)
        s2 == FailIf(s1, "HAS_MIN_LENGTH" \in n.m_flags /\ unicode_size(e.s) < n.m_min_length)
        s3 == When(s2, LAMBDA x :
                  FailIf(x, n.m_pattern # <<>> /\ ~regex_search(e.s, n.m_pattern[1])))
    IN  When(s3, LAMBDA x :
            FailIf(x, n.m_format # "none" /\ ~format_accepts(n.m_format, e.s)))

validate_elements(s, v) ==
    LET n == Node(s)
    IN  FailIf(FailIf(s, "HAS_MAX_ITEMS" \in n.m_flags /\ v > n.m_max_items),
               "HAS_MIN_ITEMS" \in n.m_flags /\ v < n.m_min_items)

validate_members(s, v) ==
    LET n == Node(s)
    IN  FailIf(FailIf(s, "HAS_MAX_PROPERTIES" \in n.m_flags /\ v > n.m_max_properties),
               "HAS_MIN_PROPERTIES" \in n.m_flags /\ v < n.m_min_properties)

RECURSIVE finalize(_)

\* e->finalize() on the sessions cs in turn, up to the first that returns
\* false.
RECURSIVE finalize_until_failure(_, _)
finalize_until_failure(cs, i) ==
    IF i > Len(cs) THEN [cs |-> cs, failed |-> FALSE]
    ELSE LET c == finalize(cs[i])
         IN  IF ~c.m_match THEN [cs |-> [cs EXCEPT ![i] = c], failed |-> TRUE]
             ELSE finalize_until_failure([cs EXCEPT ![i] = c], i + 1)

\* std::remove_if of the sessions whose finalize() returns false.
finalized_true(cs) ==
    SelectSeq([i \in 1..Len(cs) |-> finalize(cs[i])], LAMBDA c : c.m_match)

finalize_all_of(s) ==
    IF s.m_match /\ s.m_all_of # <<>>
    THEN LET r == finalize_until_failure(s.m_all_of, 1)
         IN  [s EXCEPT !.m_all_of = r.cs, !.m_match = IF r.failed THEN FALSE ELSE @]
    ELSE s

finalize_any_of(s) ==
    IF s.m_match /\ s.m_any_of # <<>>
    THEN LET kept == finalized_true(s.m_any_of)
         IN  [s EXCEPT !.m_any_of = kept, !.m_match = IF kept = <<>> THEN FALSE ELSE @]
    ELSE s

\* A oneOf that is content with any number of matching branches.
finalize_one_of_lenient(s) ==
    IF s.m_match /\ s.m_one_of # <<>>
    THEN LET kept == finalized_true(s.m_one_of)
         IN  [s EXCEPT !.m_one_of = kept, !.m_match = IF kept = <<>> THEN FALSE ELSE @]
    ELSE s

finalize_one_of(s) ==
    IF s.m_match /\ s.m_one_of # <<>>
    THEN LET kept == finalized_true(s.m_one_of)
         IN  [s EXCEPT !.m_one_of = kept, !.m_match = IF Len(kept) # 1 THEN FALSE ELSE @]
    ELSE s

\* A finalize that assigns the outcome of `not` to the flag.
finalize_not_assigning(s) ==
    IF s.m_not # <<>>
    THEN LET c == finalize(s.m_not[1])
         IN  [s EXCEPT !.m_not = <<c>>, !.m_match = ~c.m_match]
    ELSE s

finalize_not(s) ==
    IF s.m_match /\ s.m_not # <<>>
    THEN LET c == finalize(s.m_not[1])
         IN  [s EXCEPT !.m_not = <<c>>, !.m_match = IF c.m_match THEN FALSE ELSE @]
    ELSE s

\* The loop with a branch that is gone passed over.
RECURSIVE finalize_dependencies_of_held(_, _, _)
finalize_dependencies_of_held(s, ks, i) ==
    IF i > Len(ks) THEN s
    ELSE IF ks[i] \notin s.m_keys THEN finalize_dependencies_of_held(s, ks, i + 1)
    ELSE LET at == { j \in 1..Len(s.m_schema_dependencies) :
                        s.m_schema_dependencies[j].key = ks[i] }
             j == CHOOSE j \in at : TRUE
             c == finalize(s.m_schema_dependencies[j].c)
             t == [s EXCEPT !.m_schema_dependencies[j].c = c]
         IN  IF at = {} THEN finalize_dependencies_of_held(s, ks, i + 1)
             ELSE IF ~c.m_match THEN Fail(t)
             ELSE finalize_dependencies_of_held(t, ks, i + 1)

\* The loop over the node's schema dependencies, from the i-th key on.
RECURSIVE finalize_dependencies(_, _, _)
finalize_dependencies(s, ks, i) ==
    IF i > Len(ks) THEN s
    ELSE IF ks[i] \notin s.m_keys THEN finalize_dependencies(s, ks, i + 1)
    ELSE LET at == { j \in 1..Len(s.m_schema_dependencies) :
                        s.m_schema_dependencies[j].key = ks[i] }
             j == CHOOSE j \in at : TRUE
             c == finalize(s.m_schema_dependencies[j].c)
             t == [s EXCEPT !.m_schema_dependencies[j].c = c]
         IN  IF at = {} THEN Fail(s)
             ELSE IF ~c.m_match THEN Fail(t)
             ELSE finalize_dependencies(t, ks, i + 1)

finalize(s) ==
    When(finalize_not(finalize_one_of(finalize_any_of(finalize_all_of(s)))),
         LAMBDA x : IF "HAS_DEPENDENCIES" \in Flags(x)
                    THEN finalize_dependencies(
                             x, SortedKeys(DOMAIN Node(x).m_schema_dependencies), 1)
                    ELSE x)

match(s) == s.m_match

\* A null whose enum candidates are compared whether or not the type
\* matched.
null_comparing_always(s, e) ==
    LET s1 == When(s, LAMBDA x : validate_type(x, {"NULL_"}))
        s2 == validate_enum(s1, e)
        s3 == When(s2, LAMBDA x : validate_collections(x, e))
    IN  WhenHash(s3, e)

null(s, e) ==
    LET s1 == When(s, LAMBDA x : validate_type(x, {"NULL_"}))
        s2 == When(s1, LAMBDA x : validate_enum(x, e))
        s3 == When(s2, LAMBDA x : validate_collections(x, e))
    IN  WhenHash(s3, e)

boolean(s, e) ==
    LET s1 == When(s, LAMBDA x : validate_type(x, {"BOOLEAN"}))
        s2 == When(s1, LAMBDA x : validate_enum(x, e))
        s3 == When(s2, LAMBDA x : validate_collections(x, e))
    IN  WhenHash(s3, e)

\* The three overloads: a double is a NUMBER, an integer an INTEGER or a
\* NUMBER.
\* A number typed by its value: a double without a fraction as an integer.
number_typed_by_value(s, e) ==
    LET s1 == When(s, LAMBDA x : validate_type(x, {"INTEGER", "NUMBER"}))
        s2 == When(s1, LAMBDA x : validate_enum(x, e))
        s3 == When(s2, LAMBDA x : validate_collections(x, e))
        s4 == When(s3, LAMBDA x : IF x.m_count = <<>> THEN validate_number(x, e) ELSE x)
    IN  WhenHash(s4, e)

number(s, e) ==
    LET s1 == When(s, LAMBDA x : validate_type(x, IF e.t = "d" THEN {"NUMBER"}
                                                  ELSE {"INTEGER", "NUMBER"}))
        s2 == When(s1, LAMBDA x : validate_enum(x, e))
        s3 == When(s2, LAMBDA x : validate_collections(x, e))
        s4 == When(s3, LAMBDA x : IF x.m_count = <<>> THEN validate_number(x, e) ELSE x)
    IN  WhenHash(s4, e)

string(s, e) ==
    LET s1 == When(s, LAMBDA x : validate_type(x, {"STRING"}))
        s2 == When(s1, LAMBDA x : validate_enum(x, e))
        s3 == When(s2, LAMBDA x : validate_collections(x, e))
        s4 == When(s3, LAMBDA x : IF x.m_count = <<>> THEN validate_string(x, e) ELSE x)
    IN  WhenHash(s4, e)

\* A binary value checked as a value of a type of its own.
binary_typed(s, e) == When(s, LAMBDA x : validate_type(x, {"BINARY"}))

binary(s, e) == s

\* m_count.push_back( 0 ), ++m_count.back() and m_count.pop_back().
push_back(s) == [s EXCEPT !.m_count = Append(@, 0)]
increment_back(s) == [s EXCEPT !.m_count[Len(s.m_count)] = @ + 1]
pop_back_while_matching(s) ==
    IF s.m_match THEN [s EXCEPT !.m_count = SubSeq(@, 1, Len(@) - 1)] ELSE s
pop_back(s) == [s EXCEPT !.m_count = SubSeq(@, 1, Len(@) - 1)]
back(s) == s.m_count[Len(s.m_count)]

\* The position whose schema governs array position `next`: the "items"
\* schema, the schema of the tuple at that position, or else
\* "additionalItems" when it is a schema; null if there is none.
item_schema(n, next) ==
    IF n.m_items # NullPtr /\ is_object(n.m_items) THEN n.m_items
    ELSE IF n.m_items # NullPtr /\ next < Len(Elems(n.m_items))
         THEN Elems(n.m_items)[next + 1]
    ELSE IF n.m_additional_items # NullPtr /\ is_object(n.m_additional_items)
         THEN n.m_additional_items
    ELSE NullPtr

select_item(s, next) ==
    IF item_schema(Node(s), next) = NullPtr THEN s
    ELSE [s EXCEPT !.m_item = <<consumer(item_schema(Node(s), next))>>]

begin_array(s, e) ==
    LET s1 == When(s, LAMBDA x : validate_type(x, {"ARRAY"}))
        s2 == When(s1, LAMBDA x : validate_enum(x, e))
        s3 == When(s2, LAMBDA x : validate_collections(x, e))
        s4 == When(s3, LAMBDA x :
                  IF x.m_hash # <<>> THEN hash_feed(x, e)
                  ELSE IF x.m_count = <<>> /\ "HAS_UNIQUE_ITEMS" \in Flags(x)
                       THEN [x EXCEPT !.m_hash = << <<>> >>]
                       ELSE x)
        s5 == When(s4, LAMBDA x : IF x.m_count = <<>> THEN select_item(x, 0) ELSE x)
    IN  push_back(s5)

\* The item session is finalized and released at the session's own level.
close_item(s) ==
    IF s.m_match /\ s.m_item # <<>> /\ Len(s.m_count) = 1
    THEN [s EXCEPT !.m_item = <<>>,
                   !.m_match = IF ~finalize(s.m_item[1]).m_match THEN FALSE ELSE @]
    ELSE s

\* The element that ended is looked up in m_unique but not inserted.
unique_element_forgetting(s) ==
    [s EXCEPT !.m_hash = << <<>> >>,
              !.m_match = IF hash_value(s.m_hash[1]) \in s.m_unique THEN FALSE ELSE @]

\* The hash of the element that ended is looked up in m_unique, inserted,
\* and the hasher reset.
unique_element(s) ==
    [s EXCEPT !.m_unique = @ \cup {hash_value(s.m_hash[1])},
              !.m_hash = << <<>> >>,
              !.m_match = IF hash_value(s.m_hash[1]) \in s.m_unique THEN FALSE ELSE @]

element(s, e) ==
    LET s1 == When(s, LAMBDA x : validate_enum(x, e))
        s2 == close_item(s1)
        s3 == When(s2, LAMBDA x : validate_collections(x, e))
        s4 == When(s3, LAMBDA x :
                  IF x.m_hash = <<>> THEN x
                  ELSE IF Len(x.m_count) = 1 THEN unique_element(x)
                  ELSE hash_feed(x, e))
        s5 == increment_back(s4)
    IN  When(s5, LAMBDA x : IF Len(x.m_count) = 1 THEN select_item(x, back(x)) ELSE x)

\* More elements than the tuple has schemas, with "additionalItems": false.
tuple_overrun(s) ==
    LET n == Node(s)
    IN  /\ Len(s.m_count) = 1
        /\ n.m_items # NullPtr /\ is_array(n.m_items)
        /\ n.m_additional_items # NullPtr /\ is_boolean(n.m_additional_items)
        /\ ~Val(n.m_additional_items).b
        /\ back(s) > Len(Val(n.m_items).elems)

end_array(s, e) ==
    LET s1 == When(s, LAMBDA x : validate_enum(x, e))
        s2 == close_item(s1)
        s3 == When(s2, LAMBDA x : FailIf(x, tuple_overrun(x)))
        s4 == When(s3, LAMBDA x : validate_collections(x, e))
        s5 == WhenHash(s4, e)
        s6 == When(s5, LAMBDA x :
                  IF Len(x.m_count) = 1 THEN validate_elements(x, back(x)) ELSE x)
    IN  pop_back(s6)

begin_object(s, e) ==
    LET s1 == When(s, LAMBDA x : validate_type(x, {"OBJECT"}))
        s2 == When(s1, LAMBDA x : validate_enum(x, e))
        s3 == When(s2, LAMBDA x : validate_collections(x, e))
        s4 == WhenHash(s3, e)
    IN  push_back(s4)

\* The "properties" entry, or else the first matching "patternProperties"
\* entry alone.
property_schemas_first_match(n, k) ==
    LET matching == SelectSeq(n.m_pattern_properties,
                              LAMBDA pp : regex_search(Bytes(k), pp.regex))
    IN  IF n.m_properties # NullPtr /\ k \in DOMAIN Val(n.m_properties).members
        THEN <<skip_value_ptr(n.m_properties \o <<k>>)>>
        ELSE IF matching = <<>> THEN <<>> ELSE <<matching[1].schema>>

\* The positions whose schemas govern the value of a key: its "properties"
\* entry and every matching "patternProperties" entry.
property_schemas(n, k) ==
    (IF n.m_properties # NullPtr /\ k \in DOMAIN Val(n.m_properties).members
     THEN <<skip_value_ptr(n.m_properties \o <<k>>)>>
     ELSE <<>>)
    \o [i \in 1..Len(SelectSeq(n.m_pattern_properties,
                                LAMBDA pp : regex_search(Bytes(k), pp.regex))) |->
          SelectSeq(n.m_pattern_properties,
                    LAMBDA pp : regex_search(Bytes(k), pp.regex))[i].schema]

\* The sessions of a key: one per governing schema, and what
\* "additionalProperties" says as well.
select_properties_of_every_key(s, e) ==
    LET n == Node(s)
        cs == [i \in 1..Len(property_schemas(n, e.key)) |->
                  consumer(property_schemas(n, e.key)[i])]
    IN  IF n.m_additional_properties = NullPtr THEN [s EXCEPT !.m_properties = cs]
        ELSE IF is_boolean(n.m_additional_properties)
             THEN FailIf([s EXCEPT !.m_properties = cs], ~Val(n.m_additional_properties).b)
        ELSE [s EXCEPT !.m_properties = cs \o <<consumer(n.m_additional_properties)>>]

\* The sessions of a key: one per governing schema, or else what
\* "additionalProperties" says.
select_properties(s, e) ==
    LET n == Node(s)
    IN  IF property_schemas(n, e.key) # <<>>
        THEN [s EXCEPT !.m_properties =
                 [i \in 1..Len(property_schemas(n, e.key)) |->
                     consumer(property_schemas(n, e.key)[i])]]
        ELSE IF n.m_additional_properties = NullPtr THEN s
        ELSE IF is_boolean(n.m_additional_properties)
             THEN FailIf(s, ~Val(n.m_additional_properties).b)
        ELSE [s EXCEPT !.m_properties = <<consumer(n.m_additional_properties)>>]

\* A key seen before is inserted again.
insert_key_again(s, k) == [s EXCEPT !.m_keys = @ \cup {k}]

\* m_keys.insert( v ).second: false for a key seen before.
insert_key(s, k) ==
    [s EXCEPT !.m_keys = @ \cup {k}, !.m_match = IF k \in s.m_keys THEN FALSE ELSE @]

key(s, e) ==
    LET s1 == When(s, LAMBDA x : validate_enum(x, e))
        s2 == When(s1, LAMBDA x : validate_collections(x, e))
        s3 == WhenHash(s2, e)
        s4 == When(s3, LAMBDA x :
                  IF /\ Len(x.m_count) = 1
                     /\ ("HAS_DEPENDENCIES" \in Flags(x) \/ Node(x).m_required # {})
                  THEN insert_key(x, e.key) ELSE x)
    IN  When(s4, LAMBDA x :
            IF x.m_properties = <<>> /\ Len(x.m_count) = 1
            THEN select_properties(x, e) ELSE x)

\* The sessions of the member that ended are finalized, up to the first
\* that fails, and released.
close_properties(s) ==
    IF s.m_match /\ s.m_properties # <<>> /\ Len(s.m_count) = 1
    THEN [s EXCEPT !.m_properties = <<>>,
                   !.m_match = IF finalize_until_failure(s.m_properties, 1).failed
                               THEN FALSE ELSE @]
    ELSE s

member(s, e) ==
    LET s1 == When(s, LAMBDA x : validate_enum(x, e))
        s2 == close_properties(s1)
        s3 == When(s2, LAMBDA x : validate_collections(x, e))
        s4 == WhenHash(s3, e)
    IN  increment_back(s4)

\* Only the keys a present key depends on are looked for.
missing_key_of_dependencies(s) ==
    LET n == Node(s)
    IN  /\ "HAS_DEPENDENCIES" \in n.m_flags
        /\ \E k \in DOMAIN n.m_property_dependencies :
               k \in s.m_keys /\ ~(n.m_property_dependencies[k] \subseteq s.m_keys)

\* Only the required keys are looked for.
missing_key_of_required(s) ==
    LET n == Node(s)
    IN  n.m_required # {} /\ ~(n.m_required \subseteq s.m_keys)

\* A required key, or a key a present key depends on, is missing.
missing_key(s) ==
    LET n == Node(s)
    IN  \/ n.m_required # {} /\ ~(n.m_required \subseteq s.m_keys)
        \/ /\ "HAS_DEPENDENCIES" \in n.m_flags
           /\ \E k \in DOMAIN n.m_property_dependencies :
                  k \in s.m_keys /\ ~(n.m_property_dependencies[k] \subseteq s.m_keys)

end_object(s, e) ==
    LET s1 == When(s, LAMBDA x : validate_enum(x, e))
        s2 == When(s1, LAMBDA x : validate_collections(x, e))
        s3 == WhenHash(s2, e)
        s4 == When(s3, LAMBDA x :
                  IF Len(x.m_count) = 1 THEN validate_members(x, back(x)) ELSE x)
        s5 == When(s4, LAMBDA x : FailIf(x, Len(x.m_count) = 1 /\ missing_key(x)))
    IN  pop_back(s5)

\* The member function of schema_consumer an event calls.
On(s, e) ==
    CASE e.k = "null" -> null(s, e)
      [] e.k = "boolean" -> boolean(s, e)
      [] e.k = "number" -> number(s, e)
      [] e.k = "string" -> string(s, e)
      [] e.k = "binary" -> binary(s, e)
      [] e.k = "begin_array" -> begin_array(s, e)
      [] e.k = "element" -> element(s, e)
      [] e.k = "end_array" -> end_array(s, e)
      [] e.k = "begin_object" -> begin_object(s, e)
      [] e.k = "key" -> key(s, e)
      [] e.k = "member" -> member(s, e)
      [] e.k = "end_object" -> end_object(s, e)

-----------------------------------------------------------------------------
(* schema_container: the build of the graph.                               *)

\* The most rounds the closure loop of a document of the model takes.
MaxRounds == 6

\* schema_container::make_node for each of the positions ps: the nodes
\* emplaced into m_nodes.  emplace leaves an existing entry alone.
make_node(ps) ==
    [p \in DOMAIN nodes \cup ps |-> IF p \in DOMAIN nodes THEN nodes[p] ELSE schema_node(p)]

\* A closure loop that does not take away the positions already present.
required_with_present ==
    UNION { referenced_pointers(nodes[p]) : p \in DOMAIN nodes }

\* The positions the nodes refer to that are not nodes yet.
required ==
    UNION { referenced_pointers(nodes[p]) : p \in DOMAIN nodes } \ DOMAIN nodes

Counted(ps) ==
    [p \in DOMAIN made \cup ps |->
        (IF p \in DOMAIN made THEN made[p] ELSE 0) + (IF p \in ps THEN 1 ELSE 0)]

\* No validation runs beside the caller's own, of the value it was given.
Alone == UNCHANGED <<counterMap, thr, crashed, input, build, calls, history>>

Quiet ==
    /\ UNCHANGED <<sess, fault, stream, stream1, pstack, pdone, verdict, verdict1, run>>
    /\ Alone

\* The nodes are those built unless one of the constructors for ps threw:
\* the exception leaves the constructor of schema_container, and there is
\* no container.
Emplaced(built, ps) ==
    IF \E p \in ps : built[p].err # ""
    THEN nodes' = <<>> /\ phase' = "build_failed"
    ELSE nodes' = built /\ phase' = "closure"

\* The constructor of schema_container up to the loop: the root node.
Construct ==
    /\ phase = "new"
    /\ Emplaced(make_node({<<>>}), {<<>>})
    /\ made' = Counted({<<>>})
    /\ round' = 0
    /\ UNCHANGED <<doc, m_value>>
    /\ Quiet

\* One pass of the while( true ) loop of the constructor.
ClosureRound ==
    /\ phase = "closure"
    /\ round < MaxRounds
    /\ IF required = {}
       THEN /\ phase' = "built"
            /\ UNCHANGED <<nodes, made>>
       ELSE /\ Emplaced(make_node(required), required)
            /\ made' = Counted(required)
    /\ round' = round + 1
    /\ UNCHANGED <<doc, m_value>>
    /\ Quiet

-----------------------------------------------------------------------------
(* basic_schema::validate: a session, the events of a value, finalize.     *)

\* The sessions of one validation: one per node, each as consumer( p )
\* returns it, all of them given the events of the same value.
Consumer ==
    /\ \/ phase = "built" /\ run = 0
       \/ phase = "finalized" /\ run = 1
    /\ run' = run + 1
    /\ sess' = [p \in DOMAIN nodes |-> consumer(p)]
    /\ fault' = [p \in DOMAIN nodes |-> TreeFault(sess'[p])]
    /\ stream' = <<>>
    /\ pstack' = <<>>
    /\ pdone' = FALSE
    /\ phase' = "streaming"
    /\ UNCHANGED <<doc, m_value, nodes, made, round, stream1, verdict, verdict1>>
    /\ Alone

\* events::from_value walks the value in document order: what it has open.
Top == IF pstack = <<>> THEN "none" ELSE pstack[Len(pstack)]
Pop == SubSeq(pstack, 1, Len(pstack) - 1)
ValueExpected == (pstack = <<>> /\ ~pdone) \/ Top \in {"array", "object_value"}

\* The producer's stack after a whole value has been delivered under `st`.
AfterValue(st) ==
    IF st = <<>> THEN <<>>
    ELSE [st EXCEPT ![Len(st)] = IF @ = "array" THEN "array_sep" ELSE "object_sep"]

\* The handler of the event e is called on every session that is still
\* running.
Handle(e) ==
    /\ sess' = [p \in DOMAIN sess |-> IF fault[p] = "none" THEN On(sess[p], e) ELSE sess[p]]
    /\ fault' = [p \in DOMAIN sess |-> IF fault[p] = "none" THEN TreeFault(sess'[p]) ELSE fault[p]]
    /\ stream' = Append(stream, e)

\* The event e reaches every session that is still running.
Deliver(e) ==
    /\ phase = "streaming"
    /\ Len(stream) < MaxLen
    /\ run = 2 => e = stream1[Len(stream) + 1]
    /\ { p \in DOMAIN sess : fault[p] = "none" } # {}
    /\ Handle(e)
    /\ UNCHANGED <<doc, m_value, phase, nodes, made, round, run, stream1, verdict, verdict1>>
    /\ Alone

\* The producer has delivered a scalar.
Delivered ==
    /\ pstack' = AfterValue(pstack)
    /\ pdone' = (pstack = <<>>)

Null ==
    /\ ValueExpected
    /\ Deliver(Ev("null"))
    /\ Delivered

Boolean ==
    /\ ValueExpected
    /\ \E b \in Booleans : Deliver(EvBoolean(b))
    /\ Delivered

Number ==
    /\ ValueExpected
    /\ \E e \in Numbers : Deliver(e)
    /\ Delivered

String ==
    /\ ValueExpected
    /\ \E s \in Strings : Deliver(EvString(s))
    /\ Delivered

BeginArray ==
    /\ ValueExpected
    /\ Len(pstack) < MaxDepth
    /\ Deliver(Ev("begin_array"))
    /\ pstack' = Append(pstack, "array")
    /\ UNCHANGED pdone

Element ==
    /\ Top = "array_sep"
    /\ Deliver(Ev("element"))
    /\ pstack' = [pstack EXCEPT ![Len(pstack)] = "array"]
    /\ UNCHANGED pdone

EndArray ==
    /\ Top = "array"
    /\ Deliver(Ev("end_array"))
    /\ pstack' = AfterValue(Pop)
    /\ pdone' = (Pop = <<>>)

BeginObject ==
    /\ ValueExpected
    /\ Len(pstack) < MaxDepth
    /\ Deliver(Ev("begin_object"))
    /\ pstack' = Append(pstack, "object")
    /\ UNCHANGED pdone

Key ==
    /\ Top = "object"
    /\ \E k \in Keys : Deliver(EvKey(k))
    /\ pstack' = [pstack EXCEPT ![Len(pstack)] = "object_value"]
    /\ UNCHANGED pdone

Member ==
    /\ Top = "object_sep"
    /\ Deliver(Ev("member"))
    /\ pstack' = [pstack EXCEPT ![Len(pstack)] = "object"]
    /\ UNCHANGED pdone

EndObject ==
    /\ Top = "object"
    /\ Deliver(Ev("end_object"))
    /\ pstack' = AfterValue(Pop)
    /\ pdone' = (Pop = <<>>)

\* c->finalize() of every session that ran to the end of the value.
Finalize ==
    /\ phase = "streaming"
    /\ pdone
    /\ run = 2 => Len(stream) = Len(stream1)
    /\ sess' = [p \in DOMAIN sess |-> IF fault[p] = "none" THEN finalize(sess[p]) ELSE sess[p]]
    /\ verdict' = [p \in DOMAIN sess |-> fault[p] = "none" /\ match(sess'[p])]
    /\ IF run = 1
       THEN verdict1' = verdict' /\ stream1' = stream
       ELSE UNCHANGED <<verdict1, stream1>>
    /\ phase' = "finalized"
    /\ UNCHANGED <<doc, m_value, nodes, made, round, run, fault, stream, pstack, pdone>>
    /\ Alone

\* Nothing is constructed yet.
Unbuilt ==
    /\ phase = "new"
    /\ nodes = <<>>
    /\ made = <<>>
    /\ round = 0
    /\ run = 0
    /\ sess = <<>>
    /\ fault = <<>>
    /\ stream = <<>>
    /\ stream1 = <<>>
    /\ pstack = <<>>
    /\ pdone = FALSE
    /\ verdict = <<>>
    /\ verdict1 = <<>>
    /\ counterMap = <<>>
    /\ thr = <<>>
    /\ crashed = FALSE
    /\ calls = 0
    /\ history = <<>>

\* The schema is one of the documents.
Blank ==
    /\ m_value = Document(doc)
    /\ build = "wraps"
    /\ Unbuilt

Init ==
    /\ doc \in DocNames
    /\ input = <<>>
    /\ Blank

Next ==
    \/ Construct
    \/ ClosureRound
    \/ Consumer
    \/ Null
    \/ Boolean
    \/ Number
    \/ String
    \/ BeginArray
    \/ Element
    \/ EndArray
    \/ BeginObject
    \/ Key
    \/ Member
    \/ EndObject
    \/ Finalize

Spec == Init /\ [][Next]_vars

-----------------------------------------------------------------------------
(* Properties.                                                             *)

\* The positions whose schema has the keyword k and no other.
Only(k) == { p \in DOMAIN nodes : is_object(p) /\ DOMAIN Val(p).members = {k} }

\* A validation is going on or has ended.
Validating == phase \in {"streaming", "finalized"}

\* The sessions at the positions ps were all created and none of their
\* handlers failed to return.
Sound(ps) == \A p \in ps : p \in DOMAIN sess /\ fault[p] = "none"

\* A session and every session it owns, directly or not.
RECURSIVE Sessions(_)
Sessions(s) ==
    {s} \cup UNION { Sessions(Children(s)[i]) : i \in 1..Len(Children(s)) }

\* The events a producer can send.
Events ==
    {Ev("null"), Ev("begin_array"), Ev("element"), Ev("end_array"),
     Ev("begin_object"), Ev("member"), Ev("end_object")}
    \cup { EvBoolean(b) : b \in Booleans } \cup Numbers
    \cup { EvString(s) : s \in Strings } \cup { EvKey(k) : k \in Keys }

\* The events that may follow what the session has seen: one that closes
\* or continues an aggregate needs an open one.
Follows(s, e) ==
    e.k \in {"element", "end_array", "key", "member", "end_object"} => s.m_count # <<>>

C2_MatchMonotonic ==
    /\ [][\A p \in DOMAIN sess :
             (run' = run /\ fault[p] = "none" /\ ~sess[p].m_match)
                => /\ ~sess'[p].m_match
                   /\ phase' = "finalized" => ~verdict'[p]]_vars
    /\ [](\A p \in DOMAIN sess :
             fault[p] = "none" =>
                \A d \in Sessions(sess[p]) :
                   ~d.m_match =>
                      /\ ~finalize(d).m_match
                      /\ \A e \in Events : Follows(d, e) => ~On(d, e).m_match)

C2_Witness ==
    /\ phase = "finalized" /\ doc = "Compose"
    /\ Len(stream) >= 4
    /\ stream[1].k = "begin_array"
    /\ ~verdict[Def("str")]
    /\ \E d \in Sessions(sess[<<>>]) : d # sess[<<>>] /\ ~d.m_match

\* The positions whose schema has the keyword k, among others.
With(k) == { p \in DOMAIN nodes : is_object(p) /\ k \in DOMAIN Val(p).members }

\* The branches of the array of schemas at position a that match so far,
\* or matched at the end.
Matching(a) == { i \in 1..Len(Elems(a)) : sess[Elems(a)[i]].m_match }

\* C3: the session of a schema {"not": S} ends true exactly when the
\* session of S on the same value ends false; while the value streams, the
\* session of {"not": S} stays matching and holds the branch for S as long
\* as that branch matches, and drops it at the event on which it fails.
C3_Not ==
    Validating =>
        \A p \in Only("not") :
            LET q == nodes[p].m_not
            IN  Sound({p, q}) =>
                    /\ phase = "finalized" => verdict[p] = ~verdict[q]
                    /\ phase = "streaming" =>
                          /\ sess[p].m_match
                          /\ sess[p].m_not = IF sess[q].m_match THEN <<sess[q]>> ELSE <<>>

C3_Witness ==
    /\ phase = "finalized" /\ doc = "Compose"
    /\ \E p \in Only("not") : verdict[p] /\ sess[p].m_not = <<>>
    /\ \E p \in Only("not") : verdict[p] /\ sess[p].m_not # <<>>
    /\ \E p \in Only("not") : ~verdict[p]

\* C4: the session of a schema whose only keyword is oneOf ends true
\* exactly when one and only one of its branches accepts the value.
C4_OneOf ==
    phase = "finalized" =>
        \A p \in Only("oneOf") :
            Sound({p} \cup Range(Elems(nodes[p].m_one_of))) =>
                (verdict[p] <=> Cardinality(Matching(nodes[p].m_one_of)) = 1)

C4_Witness ==
    /\ phase = "finalized" /\ doc = "Compose"
    /\ \E p \in Only("oneOf") : Cardinality(Matching(nodes[p].m_one_of)) = 0 /\ ~verdict[p]
    /\ \E p \in Only("oneOf") : Cardinality(Matching(nodes[p].m_one_of)) = 1 /\ verdict[p]
    /\ \E p \in Only("oneOf") : Cardinality(Matching(nodes[p].m_one_of)) = 2 /\ ~verdict[p]

\* C5: a session with allOf branches does not match in any state in which
\* one of its branches does not match, from the event on which the branch
\* fails onwards; and it ends true only if every branch ends true.
C5_AllOf ==
    Validating =>
        \A p \in With("allOf") :
            LET qs == Elems(nodes[p].m_all_of)
            IN  Sound({p} \cup Range(qs)) =>
                    /\ sess[p].m_match => \A i \in 1..Len(qs) : sess[qs[i]].m_match
                    /\ phase = "finalized" /\ verdict[p]
                          => \A i \in 1..Len(qs) : verdict[qs[i]]

C5_Witness ==
    /\ phase = "streaming" /\ doc = "Compose"
    /\ \E p \in With("allOf") :
          LET qs == Elems(nodes[p].m_all_of)
          IN  /\ ~sess[p].m_match
              /\ \E i \in 1..Len(qs) : ~sess[qs[i]].m_match
              /\ \E i \in 1..Len(qs) : sess[qs[i]].m_match

\* C6: the session of a schema whose only keyword is anyOf matches, while
\* the value streams and at the end, exactly when one of its branches
\* does: it fails on the event that fails its last matching branch and on
\* no other, and ends true exactly when a branch accepts the value.
C6_AnyOf ==
    Validating =>
        \A p \in Only("anyOf") :
            Sound({p} \cup Range(Elems(nodes[p].m_any_of))) =>
                /\ sess[p].m_match <=> Matching(nodes[p].m_any_of) # {}
                /\ phase = "finalized" => (verdict[p] <=> Matching(nodes[p].m_any_of) # {})

C6_Witness ==
    /\ phase = "streaming" /\ doc = "Compose"
    /\ \E p \in Only("anyOf") :
          /\ sess[p].m_match
          /\ Cardinality(Matching(nodes[p].m_any_of)) = 1
          /\ Len(Elems(nodes[p].m_any_of)) = 3
    /\ \E p \in Only("anyOf") : ~sess[p].m_match /\ Matching(nodes[p].m_any_of) = {}

\* A container has been constructed.
Built == phase \in {"built", "streaming", "finalized"}

\* C7: on a built graph no event handler and no finalize fails to return:
\* a session that was created stays free of faults through every event and
\* through finalize, and no session asks the container for a position that
\* is not a node.
C7_NeverErrors ==
    /\ [](\A p \in DOMAIN fault : fault[p] # "logic_error")
    /\ [][phase = "streaming" =>
             \A p \in DOMAIN sess : fault[p] = "none" => fault'[p] = "none"]_vars

\* The rule of `enum` the specification states: a non-empty sequence.
EmptyEnum(p) ==
    /\ is_object(p)
    /\ value_find(p, "enum") # NullPtr
    /\ is_array(skip_value_ptr(p \o <<"enum">>))
    /\ Val(skip_value_ptr(p \o <<"enum">>)).elems = <<>>

\* C8: a build that came upon a position that is not a keyed mapping or
\* breaks the rule of a keyword, be it under `definitions` and never applied,
\* gives no container; and a failed build leaves no node and no session.
C8_AllOrNothing ==
    /\ Built => \A p \in DOMAIN made :
                   is_object(p) /\ schema_node(p).err = "" /\ ~EmptyEnum(p)
    /\ phase = "build_failed" => nodes = <<>> /\ sess = <<>>

\* The positions reachable from those of S through referenced positions.
RECURSIVE Closure(_)
Closure(S) ==
    LET T == S \cup UNION { schema_node(p).m_referenced_pointers : p \in S }
    IN  IF T = S THEN S ELSE Closure(T)

\* C9: the closure loop ends; every round but the last adds a node, so the
\* rounds are no more than the nodes, which are positions of the document;
\* at the end the nodes are exactly the positions reachable from the root;
\* a node is constructed once and is never replaced.
C9_Closure ==
    /\ <>(phase \notin {"new", "closure"})
    /\ [](phase # "build_failed" =>
             /\ round <= Cardinality(DOMAIN nodes)
             /\ DOMAIN nodes \subseteq Paths(m_value)
             /\ \A p \in DOMAIN made : made[p] = 1)
    /\ [](phase = "built" => DOMAIN nodes = Closure({<<>>}))
    /\ [][\A p \in DOMAIN nodes :
             phase' # "build_failed" => p \in DOMAIN nodes' /\ nodes'[p] = nodes[p]]_vars

C9_Witness ==
    /\ phase = "built" /\ round >= 4
    /\ Cardinality(DOMAIN nodes) >= 4
    /\ \E p \in DOMAIN nodes : p # <<>> /\ <<>> \in nodes[p].m_referenced_pointers

\* C10: on a built graph the creation of a session returns, for the root
\* and for every other node.
C10_ConsumerReturns ==
    Built => \A p \in DOMAIN nodes : TreeFault(consumer(p)) = "none"

\* The constructor is code that runs: a step of it that can be taken is
\* taken.  This is weak fairness of its steps, WF_vars(Construct \/
\* ClosureRound), with the condition under which a step can be taken
\* written out.
Running == phase = "new" \/ (phase = "closure" /\ round < MaxRounds)
LiveSpec ==
    Spec /\ ([]<>(~Running) \/ []<><<Construct \/ ClosureRound>>_vars)

-----------------------------------------------------------------------------
(* Two validations at once on one graph, and the IfCounter every IF_ of a  *)
(* handler writes to.                                                      *)

\* The callers that validate at the same time.
Threads == {1, 2}

\* The IF_ sites (lines of schema.hpp, the LINE_ID of each) that c->null()
\* passes from its entry to the end of validate_type, with the value of
\* each condition.  The later steps of null() pass further sites.
null_sites(s) ==
    <<[line |-> 1429, satisfied |-> s.m_match]>> \o
    IF ~s.m_match THEN <<>> ELSE
    <<[line |-> 859, satisfied |-> s.m_count # <<>>]>> \o
    IF s.m_count # <<>> THEN <<>> ELSE
    <<[line |-> 862, satisfied |-> "HAS_TYPE" \notin Flags(s)]>> \o
    IF "HAS_TYPE" \notin Flags(s) THEN <<>> ELSE
    <<[line |-> 865, satisfied |-> Flags(s) \cap {"NULL_"} = {}]>>

\* basic_schema::validate of the value null by one caller, run alone.
validate_null == match(finalize(On(consumer(<<>>), Ev("null"))))

\* A caller with its session, before the first IF_ of null().
caller(s) ==
    [s |-> s, sites |-> null_sites(s), at |-> 1, step |-> "call", reg |-> 0,
     returned |-> FALSE]

\* The callers are there: each has its own session from consumer().
Fork ==
    /\ phase = "built"
    /\ thr = <<>>
    /\ thr' = [t \in Threads |-> caller(consumer(<<>>))]
    /\ \A t \in Threads : TreeFault(thr'[t].s) = "none"
    /\ UNCHANGED <<doc, m_value, phase, nodes, made, round, run, sess, fault, stream,
                   stream1, pstack, pdone, verdict, verdict1, counterMap, crashed,
                   input, build, calls, history>>

\* The caller t is in addCount, at the given step of it.
In(t, step) ==
    /\ ~crashed
    /\ t \in DOMAIN thr
    /\ thr[t].at <= Len(thr[t].sites)
    /\ thr[t].step = step
Site(t) == thr[t].sites[thr[t].at]
Goes(t, step) == thr' = [thr EXCEPT ![t].step = step]
Graph == UNCHANGED <<doc, m_value, phase, nodes, made, round, run, sess, fault, stream,
                     stream1, pstack, pdone, verdict, verdict1, input, build, calls, history>>

\* counterMap[key] begins: operator[] of the unordered_map.
Enter(t) ==
    /\ In(t, "call")
    /\ Goes(t, "lookup")
    /\ UNCHANGED <<counterMap, crashed>>
    /\ Graph

\* In operator[] at the same time as t, where one of the two inserts.
Inserting(t) == Site(t).line \notin DOMAIN counterMap
Colliding(t) ==
    { u \in Threads \ {t} :
        In(u, "lookup") /\ (Inserting(t) \/ Inserting(u)) }

\* counterMap[key] returns the counter, inserted if it was not there.  An
\* insertion while another caller is inside operator[] is a data race on
\* the table: it may do no harm, and it may crash the process.
Found(t) ==
    /\ In(t, "lookup")
    /\ Goes(t, "counter")
    /\ counterMap' = IF Inserting(t)
                     THEN counterMap @@ (Site(t).line :> [total |-> 0, satisfied |-> 0])
                     ELSE counterMap
    /\ IF Colliding(t) # {} THEN crashed' \in BOOLEAN ELSE crashed' = crashed
    /\ Graph

\* ++counter.total: the load, then the store.
LoadTotal(t) ==
    /\ In(t, "counter")
    /\ thr' = [thr EXCEPT ![t].step = "total_loaded",
                          ![t].reg = counterMap[Site(t).line].total]
    /\ UNCHANGED <<counterMap, crashed>>
    /\ Graph

StoreTotal(t) ==
    /\ In(t, "total_loaded")
    /\ Goes(t, "total_stored")
    /\ counterMap' = [counterMap EXCEPT ![Site(t).line].total = thr[t].reg + 1]
    /\ UNCHANGED crashed
    /\ Graph

\* counter.satisfied += satisfied: the load, then the store; addCount
\* returns and the handler goes on to its next IF_.
LoadSatisfied(t) ==
    /\ In(t, "total_stored")
    /\ thr' = [thr EXCEPT ![t].step = "satisfied_loaded",
                          ![t].reg = counterMap[Site(t).line].satisfied]
    /\ UNCHANGED <<counterMap, crashed>>
    /\ Graph

StoreSatisfied(t) ==
    /\ In(t, "satisfied_loaded")
    /\ thr' = [thr EXCEPT ![t].step = "call", ![t].at = @ + 1]
    /\ counterMap' = [counterMap EXCEPT ![Site(t).line].satisfied =
                         thr[t].reg + (IF Site(t).satisfied THEN 1 ELSE 0)]
    /\ UNCHANGED crashed
    /\ Graph

\* The rest of null(): what the handler does to the session, which no
\* other caller sees.
Handled(t) ==
    /\ ~crashed
    /\ t \in DOMAIN thr
    /\ thr[t].at > Len(thr[t].sites)
    /\ thr[t].step = "call"
    /\ thr' = [thr EXCEPT ![t].s = On(thr[t].s, Ev("null")), ![t].step = "finalize"]
    /\ UNCHANGED <<counterMap, crashed>>
    /\ Graph

\* c->finalize(), and validate returns what it returned.
Return(t) ==
    /\ ~crashed
    /\ t \in DOMAIN thr
    /\ thr[t].step = "finalize"
    /\ thr' = [thr EXCEPT ![t].s = finalize(thr[t].s), ![t].step = "done",
                          ![t].returned = TRUE]
    /\ UNCHANGED <<counterMap, crashed>>
    /\ Graph

ConcInit ==
    /\ doc \in {"CycItems", "Chain"}
    /\ input = <<>>
    /\ Blank

ConcNext ==
    \/ Construct
    \/ ClosureRound
    \/ Fork
    \/ \E t \in Threads : Enter(t)
    \/ \E t \in Threads : Found(t)
    \/ \E t \in Threads : LoadTotal(t)
    \/ \E t \in Threads : StoreTotal(t)
    \/ \E t \in Threads : LoadSatisfied(t)
    \/ \E t \in Threads : StoreSatisfied(t)
    \/ \E t \in Threads : Handled(t)
    \/ \E t \in Threads : Return(t)

ConcSpec == ConcInit /\ [][ConcNext]_vars

\* Two callers are about to store into the same counter, each the value it
\* loaded plus its own; or both are inside operator[] and one inserts.
Racing ==
    \E t \in DOMAIN thr : \E u \in DOMAIN thr \ {t} :
        \/ /\ thr[t].step \in {"total_loaded", "satisfied_loaded"}
           /\ thr[u].step = thr[t].step
           /\ thr[t].at <= Len(thr[t].sites) /\ thr[u].at <= Len(thr[u].sites)
           /\ Site(t).line = Site(u).line
        \/ In(t, "lookup") /\ u \in Colliding(t)

\* How often the callers have passed the IF_ of a line when all are done.
Passed(line) ==
    Cardinality({ t \in DOMAIN thr :
                    \E i \in 1..Len(thr[t].sites) : thr[t].sites[i].line = line })

\* C11: two validations on one built graph, each with its own session,
\* write to nothing both can reach: at no point are both about to write the
\* same object, the process does not crash, and when both are done each
\* has the verdict it has when run alone and the shared state is what the
\* two runs one after the other leave.
C11_Isolated ==
    /\ ~crashed
    /\ ~Racing
    /\ (thr # <<>> /\ \A t \in DOMAIN thr : thr[t].returned) =>
          /\ \A t \in DOMAIN thr : match(thr[t].s) = validate_null
          /\ \A k \in DOMAIN counterMap : counterMap[k].total = Passed(k)

-----------------------------------------------------------------------------
(* basic_schema::validate of a given value: events::from_value walks it.   *)

\* The values that are validated.
Values ==
    { JNull, JUnsigned(1), JUnsigned(2), JSigned(-1), JDouble(1), JStr("a"), JStr("bb"),
      JArr(<<>>), JArr(<<JUnsigned(1)>>), JArr(<<JStr("a")>>), JArr(<<JStr("bb")>>),
      JArr(<<JUnsigned(1), JUnsigned(1)>>), JArr(<<JUnsigned(1), JStr("a")>>),
      JArr(<<JStr("a"), JUnsigned(1)>>), JArr(<<JStr("a"), JStr("a")>>),
      JArr(<<JUnsigned(1), JStr("bb")>>),
      JArr(<<JStr("a"), JUnsigned(1), JUnsigned(1)>>),
      JArr(<<JStr("a"), JUnsigned(1), JUnsigned(2)>>),
      JArr(<<JArr(<<JUnsigned(1)>>), JArr(<<JUnsigned(1)>>)>>),
      JArr(<<JArr(<<JUnsigned(1), JUnsigned(1)>>)>>),
      JArr(<<JArr(<<JUnsigned(1)>>), JArr(<<JUnsigned(2)>>)>>),
      EmptyObj, JObj([a |-> JUnsigned(1)]), JObj([b |-> JUnsigned(1)]),
      JObj([a |-> JUnsigned(1), b |-> JUnsigned(1)]),
      JObj([a |-> JStr("bb")]),
      JObj([a |-> JUnsigned(1), b |-> JStr("a")]),
      JObj([b |-> JObj([a |-> JUnsigned(1)])]),
      JObj([a |-> JObj([b |-> JUnsigned(1)])]) }

\* The events of an object with two members in the order given, as a
\* parser produces them for a text with the keys in that order.
Members(k1, n1, k2, n2) ==
    <<Ev("begin_object"), EvKey(k1), EvNumber("u", n1), Ev("member"),
      EvKey(k2), EvNumber("u", n2), Ev("member"), Ev("end_object")>>

\* The events of an array of two values.
Pair(x, y) ==
    <<Ev("begin_array")>> \o x \o <<Ev("element")>> \o y
        \o <<Ev("element"), Ev("end_array")>>

Inputs ==
    { from_value(v) : v \in Values }
        \cup { <<Ev("binary")>>,
               <<Ev("begin_array"), Ev("binary"), Ev("element"), Ev("end_array")>>,
               <<Ev("begin_object"), EvKey("a"), Ev("binary"), Ev("member"),
                 Ev("end_object")>> }
        \cup { Members("b", 1, "a", 1),
               Members("a", 2, "ba", 0), Members("a", 1, "b", 0),
               Members("ba", 2, "b", 0), Members("b", 1, "ba", 0),
               Pair(Members("a", 1, "b", 2), Members("b", 2, "a", 1)),
               Pair(Members("a", 1, "b", 2), Members("b", 1, "a", 2)),
               Pair(Members("b", 1, "a", 1), Members("b", 1, "a", 1)),
               Pair(from_value(JObj([a |-> JUnsigned(1)])),
                    from_value(JObj([b |-> JUnsigned(1)]))) }

\* events::from_value calls the handler of the next event of the value.
Walk ==
    /\ phase = "streaming"
    /\ Len(stream) < Len(input)
    /\ Handle(input[Len(stream) + 1])
    /\ pdone' = (Len(stream) + 1 = Len(input))
    /\ UNCHANGED <<doc, m_value, phase, nodes, made, round, run, stream1, verdict,
                   verdict1, pstack>>
    /\ Alone

ValueInit ==
    /\ doc = "Keywords"
    /\ input \in Inputs
    /\ Blank

ValueNext ==
    \/ Construct
    \/ ClosureRound
    \/ Consumer
    \/ Walk
    \/ Finalize

ValueSpec == ValueInit /\ [][ValueNext]_vars

\* The handlers called in turn for the events evs from the i-th on.
RECURSIVE Feed(_, _, _)
Feed(s, evs, i) == IF i > Len(evs) THEN s ELSE Feed(On(s, evs[i]), evs, i + 1)

\* basic_schema::validate for the schema at position q alone, of the value
\* whose events are evs.
validate(q, evs) == match(finalize(Feed(consumer(q), evs, 1)))

\* The value validated is an array, an object.
ArrayGiven == stream # <<>> /\ stream[1].k = "begin_array"
ObjectGiven == stream # <<>> /\ stream[1].k = "begin_object"

\* C12: a schema whose only keyword is `items` with a single schema S
\* accepts an array exactly when S accepts every element of it; the empty
\* array is accepted whatever S is.
C12_Items ==
    phase = "finalized" /\ ArrayGiven =>
        \A p \in Only("items") :
            is_object(nodes[p].m_items) =>
                (verdict[p] <=>
                    \A i \in 1..Len(Parts(stream)) :
                        validate(nodes[p].m_items, Parts(stream)[i]))

\* The nodes with a tuple of schemas under `items` and `additionalItems`
\* false.
Tuples ==
    { p \in DOMAIN nodes :
        /\ nodes[p].m_items # NullPtr /\ is_array(nodes[p].m_items)
        /\ nodes[p].m_additional_items # NullPtr
        /\ is_boolean(nodes[p].m_additional_items)
        /\ ~Val(nodes[p].m_additional_items).b }

\* The array given has k elements.
Count(evs) == Len(Parts(evs))

\* Every element of the array that has a schema in the tuple of p conforms
\* to it.
Conforming(p, evs) ==
    \A i \in 1..Count(evs) :
        i <= Len(Elems(nodes[p].m_items)) =>
            validate(Elems(nodes[p].m_items)[i], Parts(evs)[i])

\* C13: with a tuple of n schemas and `additionalItems` false an array of
\* k conforming elements is accepted exactly when k <= n, and when it is
\* rejected for k > n the session still matches until the array's own
\* end_array.
C13_Tuple ==
    Validating /\ input # <<>> /\ input[1].k = "begin_array" =>
        \A p \in Tuples :
            Conforming(p, input) =>
                /\ Len(stream) < Len(input) => sess[p].m_match
                /\ phase = "finalized" =>
                       (verdict[p] <=> Count(input) <= Len(Elems(nodes[p].m_items)))

\* The events xs and ys are those of two values that are equal, the members
\* of objects compared key by key.
RECURSIVE Equal(_, _)
Equal(xs, ys) ==
    IF xs = <<>> \/ ys = <<>> THEN xs = ys
    ELSE IF xs[1].k = "begin_array" /\ ys[1].k = "begin_array"
    THEN /\ Len(Parts(xs)) = Len(Parts(ys))
         /\ \A i \in 1..Len(Parts(xs)) : Equal(Parts(xs)[i], Parts(ys)[i])
    ELSE IF xs[1].k = "begin_object" /\ ys[1].k = "begin_object"
    THEN /\ Len(Parts(xs)) = Len(Parts(ys))
         /\ \A i \in 1..Len(Parts(xs)) :
                \E j \in 1..Len(Parts(ys)) :
                    /\ KeyOf(Parts(xs)[i]) = KeyOf(Parts(ys)[j])
                    /\ Equal(Tail(Parts(xs)[i]), Tail(Parts(ys)[j]))
    ELSE Len(xs) = 1 /\ Len(ys) = 1 /\ SameEvent(xs[1], ys[1])

\* The elements of the array that an `element` event of the array's own
\* level has closed so far.
Closed(evs) == Split(Append(evs, Ev("end_array")), 2, 0, <<>>, <<>>)

\* Two of the elements are equal.
Repeats(parts) ==
    \E i, j \in 1..Len(parts) : i < j /\ Equal(parts[i], parts[j])

\* The nodes whose only keyword is "uniqueItems": true.
Uniques == { p \in Only("uniqueItems") : "HAS_UNIQUE_ITEMS" \in nodes[p].m_flags }

\* C14: with "uniqueItems": true an array is rejected exactly when two of
\* its own elements are equal, objects compared whatever the order of their
\* keys; the session stops matching at the `element` event that closes the
\* first repeat and not before; the elements of nested arrays are not
\* compared, and other values are accepted.
C14_UniqueItems ==
    Validating /\ stream # <<>> =>
        \A p \in Uniques :
            /\ sess[p].m_match <=> ~(ArrayGiven /\ Repeats(Closed(stream)))
            /\ phase = "finalized" =>
                   (verdict[p] <=> ~(ArrayGiven /\ Repeats(Parts(input))))

\* The second of two objects with the same members in another order has
\* just been closed, and the session has stopped matching.
C14_Witness ==
    /\ phase = "streaming"
    /\ input = Pair(Members("a", 1, "b", 2), Members("b", 2, "a", 1))
    /\ Len(stream) = Len(input) - 1
    /\ stream[Len(stream)].k = "element"
    /\ ~sess[Def("uniq")].m_match
    /\ Uniques = {Def("uniq")}

\* The keys of the members of the object itself.
DepthOneKeys(evs) == { KeyOf(Parts(evs)[i]) : i \in 1..Len(Parts(evs)) }

\* The object given is complete, its end_object handled.
Ended == Validating /\ stream = input

\* C15: with `required` = R an object is accepted exactly when the keys of
\* its own members include R; the session matches until the object's own
\* end_object, the keys of nested objects do not count, and values that are
\* no objects are accepted.
C15_Required ==
    Validating /\ stream # <<>> =>
        \A p \in Only("required") :
            /\ ~Ended => sess[p].m_match
            /\ Ended =>
                   (sess[p].m_match <=>
                       (ObjectGiven => nodes[p].m_required \subseteq DepthOneKeys(input)))
            /\ phase = "finalized" => verdict[p] = sess[p].m_match

\* An object without the required key but with it inside a nested object
\* is rejected, while another schema asking for one key more accepts
\* nothing less than both keys.
C15_Witness ==
    /\ phase = "finalized"
    /\ ObjectGiven
    /\ DepthOneKeys(input) = {"b"}
    /\ \E i \in 1..Len(input) : input[i].k = "key" /\ input[i].key = "a"
    /\ ~verdict[Def("req")]
    /\ ~verdict[Def("req2")]
    /\ nodes[Def("req2")].m_required = {"a", "b"}

\* The nodes whose only keyword is `dependencies`, all of them of keys on
\* sets of keys.
KeyDependent ==
    { p \in Only("dependencies") :
        /\ "HAS_DEPENDENCIES" \in nodes[p].m_flags
        /\ DOMAIN nodes[p].m_schema_dependencies = {} }

\* C16: with a dependency of the key k on the keys K an object is accepted
\* exactly when k is not among the keys of its own members or all of K are;
\* the session matches until the object's own end_object.
C16_Dependencies ==
    Validating /\ stream # <<>> =>
        \A p \in KeyDependent :
            /\ ~Ended => sess[p].m_match
            /\ Ended =>
                   (sess[p].m_match <=>
                       (ObjectGiven =>
                           \A k \in DOMAIN nodes[p].m_property_dependencies :
                               \/ k \notin DepthOneKeys(input)
                               \/ nodes[p].m_property_dependencies[k]
                                      \subseteq DepthOneKeys(input)))
            /\ phase = "finalized" => verdict[p] = sess[p].m_match

\* The object {"a": {"b": 1}} has the key a without the key b it depends
\* on, b being a key of the nested object only: rejected for a -> {b},
\* accepted for b -> {a}.
C16_Witness ==
    /\ phase = "finalized"
    /\ ObjectGiven
    /\ DepthOneKeys(input) = {"a"}
    /\ \E i \in 1..Len(input) : input[i].k = "key" /\ input[i].key = "b"
    /\ nodes[Def("dep")].m_property_dependencies["a"] = {"b"}
    /\ ~verdict[Def("dep")]
    /\ verdict[Def("depB")]
    /\ KeyDependent = {Def("dep"), Def("depB")}

-----------------------------------------------------------------------------
(* Integers against integer bounds: every bound, every value.              *)

\* An integer as basic_value stores it: a negative one always signed.
Integers64 ==
    { JSigned(i) : i \in Int64 } \cup { JUnsigned(u) : u \in UInt64 }

\* The schemas with one bound, inclusive or exclusive, and some with both.
BoundDocuments ==
    { JObj([maximum |-> b, exclusiveMaximum |-> JBool(x)]) :
          b \in Integers64, x \in BOOLEAN }
    \cup { JObj([minimum |-> b, exclusiveMinimum |-> JBool(x)]) :
               b \in Integers64, x \in BOOLEAN }
    \cup { JObj([maximum |-> b, exclusiveMaximum |-> JBool(x),
                 minimum |-> c, exclusiveMinimum |-> JBool(y)]) :
               b \in {JSigned(-1), JUnsigned(1)}, c \in {JSigned(-1), JUnsigned(1)},
               x \in BOOLEAN, y \in BOOLEAN }

NumberInit ==
    /\ doc = "Bounds"
    /\ m_value \in BoundDocuments
    /\ input \in { from_value(v) : v \in Integers64 }
    /\ build = "wraps"
    /\ Unbuilt

NumberNext ==
    \/ Construct
    \/ ClosureRound
    \/ Consumer
    \/ Walk
    \/ Finalize

NumberSpec == NumberInit /\ [][NumberNext]_vars

\* The keyword k is in the schema, with the flag x true.
Has(k) == k \in DOMAIN m_value.members
Flagged(x) == Has(x) /\ m_value.members[x].b
Bound(k) == m_value.members[k].n

\* The integer given is beyond a bound of the schema, as integers are
\* compared in mathematics.
Beyond(v) ==
    \/ Has("maximum") /\ IF Flagged("exclusiveMaximum") THEN v >= Bound("maximum")
                                                        ELSE v > Bound("maximum")
    \/ Has("minimum") /\ IF Flagged("exclusiveMinimum") THEN v <= Bound("minimum")
                                                        ELSE v < Bound("minimum")

\* C17: an integer delivered as a signed or an unsigned event fails the
\* session of a schema with signed or unsigned integer bounds exactly when
\* it is above the maximum or below the minimum (or equal to an exclusive
\* one) as a mathematical integer, whatever the two representations.
C17_Bounds ==
    doc = "Bounds" /\ Ended =>
        /\ sess[<<>>].m_match <=> ~Beyond(input[1].n)
        /\ phase = "finalized" => (verdict[<<>>] <=> ~Beyond(input[1].n))

\* A negative signed value against an unsigned maximum it would exceed
\* after conversion is accepted.
C17_Witness ==
    /\ doc = "Bounds"
    /\ phase = "finalized"
    /\ input[1].t = "i" /\ input[1].n < 0
    /\ Has("maximum") /\ ~Has("minimum")
    /\ m_value.members["maximum"].tag = "unsigned"
    /\ to_unsigned(input[1].n) > Bound("maximum")
    /\ verdict[<<>>]

\* C18: a build that constructed a node for a sub-schema whose `enum` is
\* an empty sequence does not succeed.
C18_EmptyEnumFails ==
    (\E p \in DOMAIN made : EmptyEnum(p)) =>
        phase \in {"closure", "build_failed"}

\* A session as the constructor leaves it: matching, nothing open, nothing
\* seen, no session for an item or a member.
Fresh(s) ==
    /\ s.m_match
    /\ s.m_count = <<>>
    /\ s.m_keys = {}
    /\ s.m_unique = {}
    /\ s.m_hash = <<>>
    /\ s.m_item = <<>>
    /\ s.m_properties = <<>>

\* C19: on a built graph consumer(position) throws std::logic_error
\* exactly when the position is no key of the node map, and for a key of
\* it returns a session that is fresh, as is every session it owns,
\* whatever the sessions that exist.
C19_Consumer ==
    Built =>
        \A p \in Paths(m_value) :
            /\ consumer(p).fault = "logic_error" <=> p \notin DOMAIN nodes
            /\ p \in DOMAIN nodes =>
                   /\ TreeFault(consumer(p)) = "none"
                   /\ \A s \in Sessions(consumer(p)) : Fresh(s)

\* The nodes with one keyword, a constraint on the value itself: its type,
\* a bound, a divisor or a length.
OwnLevel ==
    Only("type") \cup Only("maximum") \cup Only("multipleOf") \cup Only("maxLength")

\* C20: the session of a schema that constrains only the value itself
\* (type, numeric bound, multipleOf, string length) does not change its
\* match flag on an event it receives while an array or object that it saw
\* open is still open.
C20_OwnLevel ==
    [][phase = "streaming" =>
          \A p \in OwnLevel \cap DOMAIN sess :
              sess[p].m_count # <<>> /\ p \in DOMAIN sess' =>
                  sess'[p].m_match = sess[p].m_match]_vars

\* Inside the array [1, "bb"] the number above the maximum and odd, and
\* the string longer than the maximum length, have been received: the
\* sessions of the bound, the divisor, the length and the type array still
\* match, and those of the types string and integer failed on begin_array.
C20_Witness ==
    /\ phase = "streaming"
    /\ input = from_value(JArr(<<JUnsigned(1), JStr("bb")>>))
    /\ Len(stream) = Len(input) - 1
    /\ \A p \in OwnLevel : sess[p].m_count # <<>>
    /\ \A k \in {"max0", "mul2", "len1", "tArr"} : sess[Def(k)].m_match
    /\ \A k \in {"tStr", "tInt"} : ~sess[Def(k)].m_match
    /\ {Def("max0"), Def("mul2"), Def("len1"), Def("tArr"), Def("tStr"), Def("tInt")}
           \subseteq OwnLevel

\* The nodes of the branches cs.
BranchNodes(cs) == { cs[i].m_node : i \in 1..Len(cs) }

\* The events xs are what is left of the events ys, or all of them.
LeftOf(xs, ys) ==
    \E n \in 0..Len(ys) : xs = SubSeq(ys, n + 1, Len(ys))

\* t is the session s after a step: it has no candidate and no branch that
\* s had not.
ShrunkTo(s, t) ==
    /\ Len(t.m_enum) <= Len(s.m_enum)
    /\ \A i \in 1..Len(t.m_enum) :
           \E j \in 1..Len(s.m_enum) : LeftOf(t.m_enum[i].expect, s.m_enum[j].expect)
    /\ Len(t.m_any_of) <= Len(s.m_any_of)
    /\ BranchNodes(t.m_any_of) \subseteq BranchNodes(s.m_any_of)
    /\ Len(t.m_one_of) <= Len(s.m_one_of)
    /\ BranchNodes(t.m_one_of) \subseteq BranchNodes(s.m_one_of)

\* C21: the enum candidates, the anyOf branches and the oneOf branches a
\* session holds never gain an element: not along the events of a
\* validation and its finalize, and not by any event or finalize that a
\* session or a session it owns could receive next.
C21_ShrinkOnly ==
    /\ [][run' = run => \A p \in DOMAIN sess : ShrunkTo(sess[p], sess'[p])]_vars
    /\ [](\A p \in DOMAIN sess :
             \A d \in Sessions(sess[p]) :
                 /\ ShrunkTo(d, finalize(d))
                 /\ \A e \in Events : Follows(d, e) => ShrunkTo(d, On(d, e)))

\* The array [1, "bb"] has ended: of three enum candidates none is left,
\* the anyOf has lost the branches for integers and arrays of integers one
\* after the other and kept a third, and the oneOf has lost two as well.
C21_Witness ==
    /\ phase = "streaming"
    /\ input = from_value(JArr(<<JUnsigned(1), JStr("bb")>>))
    /\ stream = input
    /\ Len(Val(Def("en3") \o <<"enum">>).elems) = 3
    /\ sess[Def("en3")].m_enum = <<>>
    /\ BranchNodes(sess[Def("anyIA")].m_any_of) = {Def("uniq")}
    /\ BranchNodes(sess[Def("oneSA")].m_one_of) = {Def("uniq")}
    /\ sess[Def("anyIA")].m_match /\ sess[Def("oneSA")].m_match

\* The branches a session at p holds under the keyword k are those of the
\* schemas of k whose own session, given the same events alone, still
\* matches, each in the state of that session.
InStep(p, k, held) ==
    /\ BranchNodes(held) = { q \in Range(Elems(p \o <<k>>)) : sess[q].m_match }
    /\ \A i \in 1..Len(held) : held[i] = sess[held[i].m_node]

\* C22: while a session with anyOf or oneOf matches, every branch that has
\* not failed has received every event of the stream so far, once and in
\* order, whether or not another branch failed on the same or an earlier
\* event: it is in the state of a session of its schema given the stream
\* alone, and no branch whose schema still matches is missing.
C22_Siblings ==
    phase = "streaming" =>
        /\ \A p \in With("anyOf") :
               sess[p].m_match => InStep(p, "anyOf", sess[p].m_any_of)
        /\ \A p \in With("oneOf") :
               sess[p].m_match => InStep(p, "oneOf", sess[p].m_one_of)

\* In the array [1, "bb"] the first branch failed on begin_array and the
\* second on the string; the third has all five events, as its hasher
\* and its count of elements show.
C22_Witness ==
    /\ phase = "streaming"
    /\ input = from_value(JArr(<<JUnsigned(1), JStr("bb")>>))
    /\ Len(stream) = 5
    /\ sess[Def("anyIA")].m_match
    /\ BranchNodes(sess[Def("anyIA")].m_any_of) = {Def("uniq")}
    /\ sess[Def("anyIA")].m_any_of[1].m_count = <<2>>
    /\ sess[Def("anyIA")].m_any_of[1].m_unique =
           {hash_value(<<EvNumber("u", 1)>>), hash_value(<<EvString(Bytes("bb"))>>)}
    /\ ~sess[Def("tInt")].m_match /\ ~sess[Def("itInt")].m_match
    /\ BranchNodes(sess[Def("oneSA")].m_one_of) = {Def("uniq")}

\* The nodes with schema-valued dependencies.
SchemaDependent ==
    { p \in DOMAIN nodes : DOMAIN nodes[p].m_schema_dependencies # {} }

KeysGiven == IF input # <<>> /\ input[1].k = "begin_object" THEN DepthOneKeys(input) ELSE {}

\* C24: with schema dependencies k -> D alone a value is accepted exactly
\* when, for every k among the keys of its own members, D accepts the whole
\* value; the session matches all through the stream, whatever the events
\* on which a D fails, and the outcome is decided by finalize.
C24_SchemaDependency ==
    Validating /\ stream # <<>> =>
        \A p \in SchemaDependent \cap Only("dependencies") :
            /\ phase = "streaming" => sess[p].m_match
            /\ phase = "finalized" =>
                   (verdict[p] <=>
                       \A k \in DOMAIN nodes[p].m_schema_dependencies :
                           \/ k \notin KeysGiven
                           \/ verdict[nodes[p].m_schema_dependencies[k]])

\* The object {"b": 1, "a": 1}: the schema for a, which wants a string
\* under b, failed on the value of b before the key a came; the object is
\* rejected, and so it is when a schema fails at end_object or on
\* begin_object.
C24_Witness ==
    /\ phase = "finalized"
    /\ input = Members("b", 1, "a", 1)
    /\ ~verdict[Def("sdP")]
    /\ ~verdict[nodes[Def("sdP")].m_schema_dependencies["a"]]
    /\ verdict[Def("sdR")]
    /\ ~verdict[Def("sdT")]
    /\ {Def("sdP"), Def("sdR"), Def("sdT")} = SchemaDependent \cap Only("dependencies")

\* The positions of the schemas that the document at p names for the key
\* k: under "properties" by name, under "patternProperties" by a regex
\* found in the key.
Named(p, k) ==
    IF "properties" \in DOMAIN Val(p).members /\ k \in DOMAIN Val(p \o <<"properties">>).members
    THEN {skip_value_ptr(p \o <<"properties", k>>)} ELSE {}
Patterned(p, k) ==
    IF "patternProperties" \in DOMAIN Val(p).members
    THEN { skip_value_ptr(p \o <<"patternProperties", r>>) :
             r \in { x \in DOMAIN Val(p \o <<"patternProperties">>).members :
                       regex_search(Bytes(k), x) } }
    ELSE {}

\* The nodes whose keywords are "properties" and "patternProperties" only.
PropertyNodes ==
    { p \in With("properties") \cup With("patternProperties") :
        DOMAIN Val(p).members \subseteq {"properties", "patternProperties"} }

\* The last event delivered, at the session's own level of an object.
Last == stream[Len(stream)]
AtOwnLevel(p) == sess[p].m_match /\ Len(sess[p].m_count) = 1

\* C25: at a key of the object itself the session holds one child for the
\* "properties" entry of that name and one for every "patternProperties"
\* entry whose regex is found in the key; at the member event that follows
\* it holds none; and an object is accepted exactly when the value of
\* every member is accepted by every schema that governs its key.
C25_Properties ==
    Validating /\ stream # <<>> =>
        \A p \in PropertyNodes :
            /\ phase = "streaming" /\ AtOwnLevel(p) /\ Last.k = "key" =>
                   /\ BranchNodes(sess[p].m_properties)
                          = Named(p, Last.key) \cup Patterned(p, Last.key)
                   /\ Len(sess[p].m_properties)
                          = Cardinality(Named(p, Last.key))
                                + Cardinality(Patterned(p, Last.key))
            /\ phase = "streaming" /\ AtOwnLevel(p) /\ Last.k = "member" =>
                   sess[p].m_properties = <<>>
            /\ phase = "finalized" =>
                   (verdict[p] <=>
                       (ObjectGiven =>
                           \A i \in 1..Len(Parts(input)) :
                               \A q \in Named(p, KeyOf(Parts(input)[i]))
                                          \cup Patterned(p, KeyOf(Parts(input)[i])) :
                                   validate(q, Tail(Parts(input)[i]))))

\* The object {"ba": 2, "b": 0}: both regexes are found in the first key,
\* the schema of the first accepts 2 and that of the second does not, and
\* the object is rejected.
C25_Witness ==
    /\ phase = "finalized"
    /\ input = Members("ba", 2, "b", 0)
    /\ Cardinality(Patterned(Def("pp"), "ba")) = 2
    /\ Cardinality(Named(Def("pp"), "a") \cup Patterned(Def("pp"), "a")) = 2
    /\ nodes[Def("pp")].m_pattern_properties[1].schema = Def("mul2")
    /\ validate(Def("mul2"), <<EvNumber("u", 2)>>)
    /\ ~validate(Def("max0"), <<EvNumber("u", 2)>>)
    /\ ~verdict[Def("pp")]
    /\ Def("pp") \in PropertyNodes

\* The nodes whose keywords are "properties", "patternProperties" and
\* "additionalProperties" only.
AdditionalNodes ==
    { p \in With("properties") \cup With("patternProperties")
              \cup With("additionalProperties") :
        DOMAIN Val(p).members
            \subseteq {"properties", "patternProperties", "additionalProperties"} }

Governing(p, k) == Named(p, k) \cup Patterned(p, k)

\* What the document at p says of the keys that no entry governs.
Additional(p) ==
    IF "additionalProperties" \notin DOMAIN Val(p).members THEN "absent"
    ELSE IF Val(p \o <<"additionalProperties">>).tag = "boolean"
         THEN IF Val(p \o <<"additionalProperties">>).b THEN "true" ELSE "false"
    ELSE "schema"

\* The value of a member is accepted by what governs its key.
Allowed(p, part) ==
    IF Governing(p, KeyOf(part)) # {}
    THEN \A q \in Governing(p, KeyOf(part)) : validate(q, Tail(part))
    ELSE CASE Additional(p) = "false" -> FALSE
           [] Additional(p) = "schema" ->
                  validate(skip_value_ptr(p \o <<"additionalProperties">>), Tail(part))
           [] OTHER -> TRUE

\* C26: at a key of the object itself that a "properties" or
\* "patternProperties" entry governs, the session keeps matching and holds
\* the children of those entries only, whatever "additionalProperties" is;
\* at a key that none governs, "additionalProperties" false fails the
\* session on that event, a schema gives exactly one child, and true or
\* no "additionalProperties" gives none; the object is accepted exactly
\* when every member is allowed in this way.
C26_Additional ==
    /\ [][phase = "streaming" /\ Len(stream') = Len(stream) + 1
              /\ stream'[Len(stream')].k = "key" =>
            \A p \in AdditionalNodes :
                sess[p].m_match /\ Len(sess[p].m_count) = 1 =>
                    LET k == stream'[Len(stream')].key
                        t == sess'[p]
                    IN  IF Governing(p, k) # {}
                        THEN t.m_match /\ BranchNodes(t.m_properties) = Governing(p, k)
                                /\ Len(t.m_properties) = Cardinality(Governing(p, k))
                        ELSE CASE Additional(p) = "false" -> ~t.m_match
                               [] Additional(p) = "schema" ->
                                      /\ t.m_match
                                      /\ Len(t.m_properties) = 1
                                      /\ t.m_properties[1].m_node
                                             = skip_value_ptr(p \o <<"additionalProperties">>)
                               [] OTHER -> t.m_match /\ t.m_properties = <<>>]_vars
    /\ [](phase = "finalized" =>
            \A p \in AdditionalNodes :
                verdict[p] <=>
                    (ObjectGiven =>
                        \A i \in 1..Len(Parts(input)) : Allowed(p, Parts(input)[i])))

\* The object {"ba": 2, "b": 0}: under "additionalProperties" false the
\* key "ba", in which a regex is found, was accepted with its value and
\* the key "b" failed the session, so that the value 0 was never looked
\* at; a schema for the other keys rejected 0 under "b", and true
\* accepted it.
C26_Witness ==
    /\ phase = "finalized"
    /\ input = Members("ba", 2, "b", 0)
    /\ {Def("apF"), Def("apS"), Def("apT")} \subseteq AdditionalNodes
    /\ Additional(Def("apF")) = "false" /\ Additional(Def("apS")) = "schema"
    /\ Additional(Def("apT")) = "true" /\ Additional(Def("pp")) = "absent"
    /\ Governing(Def("apF"), "ba") = {Def("mul2")} /\ Governing(Def("apF"), "b") = {}
    /\ Governing(Def("apS"), "b") = {}
    /\ ~verdict[Def("apF")] /\ ~verdict[Def("apS")] /\ verdict[Def("apT")]
    /\ sess[Def("apF")].m_properties = <<>>

\* The nodes with "additionalItems" and at most "items" beside it.
AdditionalItemsNodes ==
    { p \in With("additionalItems") :
        DOMAIN Val(p).members \subseteq {"items", "additionalItems"} }

\* The nodes whose schema is that of p without its "additionalItems".
Plain(p) ==
    { q \in DOMAIN nodes :
        /\ is_object(q)
        /\ DOMAIN Val(q).members = DOMAIN Val(p).members \ {"additionalItems"}
        /\ \A k \in DOMAIN Val(q).members : Val(q).members[k] = Val(p).members[k] }

\* The length of the tuple under "items" of p, if it is one.
TupleOf(p) ==
    IF "items" \in DOMAIN Val(p).members /\ Val(p \o <<"items">>).tag = "array"
    THEN {Len(Val(p \o <<"items">>).elems)} ELSE {}

\* C27: a schema with "additionalItems" gives the verdict of the same
\* schema without it, unless its "items" is a tuple and the array has an
\* element at or past the length of the tuple.
C27_AdditionalItems ==
    phase = "finalized" =>
        \A p \in AdditionalItemsNodes : \A q \in Plain(p) :
            (\A n \in TupleOf(p) : ArrayGiven => Count(input) <= n)
                => verdict[p] = verdict[q]

\* C28: a binary event changes nothing in any session, its children
\* included, and a value that is a binary alone is accepted by a schema
\* that gives a type or an enumeration.
C28_Binary ==
    /\ [][phase = "streaming" /\ Len(stream') = Len(stream) + 1
              /\ stream'[Len(stream')].k = "binary" =>
            sess' = sess /\ fault' = fault]_vars
    /\ [](phase = "finalized" /\ input = <<Ev("binary")>> =>
            \A p \in Only("type") \cup Only("enum") : verdict[p])

\* The binary in the array has been delivered: the session of `items`
\* holds the child of the element's schema, a type, and the child matches;
\* the sessions of a type that is not array failed on begin_array, before.
C28_Witness ==
    /\ phase = "streaming"
    /\ stream = <<Ev("begin_array"), Ev("binary")>>
    /\ Len(sess[Def("itInt")].m_item) = 1
    /\ sess[Def("itInt")].m_item[1].m_node = Def("tInt")
    /\ sess[Def("itInt")].m_item[1].m_match
    /\ sess[Def("itInt")].m_item[1].m_count = <<>>
    /\ sess[Def("tArr")].m_match
    /\ Def("tInt") \in Only("type") /\ Only("enum") # {}

-----------------------------------------------------------------------------
(* Validation of an integer against a schema with "multipleOf", under     *)
(* either build.                                                          *)

\* The schemas with an integer "multipleOf", positive or not.
MultipleDocuments == { JObj([multipleOf |-> d]) : d \in Integers64 }

MultipleInit ==
    /\ doc = "Multiples"
    /\ m_value \in MultipleDocuments
    /\ input \in { from_value(v) : v \in Integers64 }
    /\ build \in Builds
    /\ Unbuilt

MultipleSpec == MultipleInit /\ [][NumberNext]_vars

\* d divides v, as integers in mathematics.
Divides(d, v) == \E k \in (0 - 2^Width) .. 2^Width : v = k * d

-----------------------------------------------------------------------------
(* resolve_references: "$ref" objects replaced by pointers to their       *)
(* targets.                                                               *)

\* Calls of resolve_references on one document.
MaxCalls == 2

\* The value v with the value at a position replaced by x.
RECURSIVE Put(_, _, _)
Put(v, path, x) ==
    IF path = <<>> THEN x
    ELSE IF v.tag = "object"
         THEN [v EXCEPT !.members[Head(path)] = Put(@, Tail(path), x)]
         ELSE [v EXCEPT !.elems[IdxOf(Head(path)) + 1] = Put(@, Tail(path), x)]

\* skip_value_ptr in the document v.
RECURSIVE skip_in(_, _)
skip_in(v, p) ==
    IF At(v, p).tag = "value_ptr" THEN skip_in(v, At(v, p).target) ELSE p

\* The name that the bytes of a reference token spell.
Name(bytes) ==
    CASE bytes = <<97>> -> "a"
      [] bytes = <<115>> -> "s"
      [] bytes = <<116>> -> "t"
      [] bytes = <<120>> -> "x"
      [] bytes = <<122>> -> "z"
      [] OTHER -> "?"

\* The tokens of the JSON pointer in a URI fragment: what stands between
\* the slashes after the '#'.
RECURSIVE tokens(_, _)
tokens(bytes, token) ==
    IF bytes = <<>> THEN <<Name(token)>>
    ELSE IF Head(bytes) = 47 THEN <<Name(token)>> \o tokens(Tail(bytes), <<>>)
    ELSE tokens(Tail(bytes), Append(token, Head(bytes)))
uri_fragment_to_pointer(bytes) ==
    IF Len(bytes) = 1 THEN <<>> ELSE tokens(SubSeq(bytes, 3, Len(bytes)), <<>>)

\* The while loop: from the root along the tokens, through the pointers
\* met on the way; null where the code throws.
RECURSIVE pointed(_, _, _)
pointed(v, p, ptr) ==
    IF ptr = <<>> THEN p
    ELSE CASE At(v, p).tag = "array" ->
                IF Head(ptr) \in { Idx(i - 1) : i \in 1..Len(At(v, p).elems) }
                THEN pointed(v, skip_in(v, p \o <<Head(ptr)>>), Tail(ptr))
                ELSE NullPtr
           [] At(v, p).tag = "object" ->
                IF /\ "$ref" \in DOMAIN At(v, p).members
                   /\ At(v, p).members["$ref"].tag = "string"
                THEN NullPtr
                ELSE IF Head(ptr) \in DOMAIN At(v, p).members
                     THEN pointed(v, skip_in(v, p \o <<Head(ptr)>>), Tail(ptr))
                     ELSE NullPtr
           [] OTHER -> NullPtr

\* The object at p after its members, with a reference to itself passed
\* over in silence.
reference_past_itself(d, p) ==
    LET v == d.doc
        ref == skip_in(v, p \o <<"$ref">>)
        s == Bytes(At(v, ref).s)
        to == pointed(v, <<>>, uri_fragment_to_pointer(s))
    IN  IF "$ref" \notin DOMAIN At(v, p).members THEN d
        ELSE IF At(v, ref).tag # "string" THEN d
        ELSE IF s = <<>> \/ s[1] # 35 THEN d
        ELSE IF to = p THEN d
        ELSE IF to = NullPtr THEN [d EXCEPT !.err = TRUE]
        ELSE [d EXCEPT !.doc = Put(v, p, JPtr(to))]

\* The object at p after its members: replaced by a pointer if its "$ref"
\* is, behind the pointers, a string that begins with '#'.
reference(d, p) ==
    LET v == d.doc
        ref == skip_in(v, p \o <<"$ref">>)
        s == Bytes(At(v, ref).s)
        to == pointed(v, <<>>, uri_fragment_to_pointer(s))
    IN  IF "$ref" \notin DOMAIN At(v, p).members THEN d
        ELSE IF At(v, ref).tag # "string" THEN d
        ELSE IF s = <<>> \/ s[1] # 35 THEN d
        ELSE IF to = NullPtr \/ to = p THEN [d EXCEPT !.err = TRUE]
        ELSE [d EXCEPT !.doc = Put(v, p, JPtr(to))]

\* internal::resolve_references( r, v ) for the value at p, and for the
\* values at the positions ps one after the other; an exception ends it.
RECURSIVE resolve_references(_, _, _)
resolve_references(d, ps, own) ==
    IF d.err THEN d
    ELSE IF ps = <<>> THEN (IF own = NullPtr THEN d ELSE reference(d, own))
    ELSE LET p == Head(ps)
             v == At(d.doc, p)
             inner ==
                 CASE v.tag = "array" ->
                        resolve_references(d, [i \in 1..Len(v.elems) |-> p \o <<Idx(i - 1)>>],
                                           NullPtr)
                   [] v.tag = "object" ->
                        resolve_references(d, [i \in 1..Len(SortedKeys(DOMAIN v.members)) |->
                                                  p \o <<SortedKeys(DOMAIN v.members)[i]>>], p)
                   [] OTHER -> d
         IN  resolve_references(inner, Tail(ps), own)

\* resolve_references( r ) on the document; what an exception leaves is
\* the document as far as it was resolved.
ResolveReferences ==
    /\ phase = "new"
    /\ calls < MaxCalls
    /\ LET d == resolve_references([doc |-> m_value, err |-> FALSE], << <<>> >>, NullPtr)
       IN  /\ m_value' = d.doc
           /\ phase' = IF d.err THEN "ref_failed" ELSE "new"
    /\ calls' = calls + 1
    /\ UNCHANGED <<doc, nodes, made, round, run, sess, fault, stream, stream1, pstack,
                   pdone, verdict, verdict1, counterMap, thr, crashed, input, build, history>>

\* A "$ref" object, one with a member beside the "$ref", and the documents
\* with the members a, s, t and z.
Ref(x) == JObj("$ref" :> x)
RefBeside(x) == JObj(("$ref" :> x) @@ [x |-> JUnsigned(1)])
RefDocuments ==
    { JObj([a |-> a, s |-> s, t |-> t, z |-> z]) :
        a \in { Ref(Ref(JStr("#/z"))), Ref(JStr("#/z")), Ref(JStr("#/s")), Ref(JStr("#/a")),
                Ref(JStr("a")), Ref(JStr("#")), JArr(<<Ref(JStr("#/t"))>>), JUnsigned(1),
                RefBeside(JStr("#/t")), Ref(JStr("#/z/x")) },
        s \in { JStr("#/t"), JStr("a"), Ref(JStr("#/t")), Ref(JStr("#/z/x")) },
        t \in { JUnsigned(1), Ref(JStr("#/a")), JObj([x |-> JUnsigned(2)]) },
        z \in { Ref(JStr("#/s")), Ref(JStr("#/t")), JUnsigned(1), Ref(JStr("#/a/x")),
                RefBeside(JStr("#/t")), RefBeside(Ref(JStr("#/s"))) } }

RefInit ==
    /\ doc = "References"
    /\ m_value \in RefDocuments
    /\ input = <<>>
    /\ build = "wraps"
    /\ Unbuilt

RefNext == ResolveReferences

RefSpec == RefInit /\ [][RefNext]_vars

\* C30: a second call of resolve_references on a document that the first
\* one resolved without an exception changes nothing in it and throws
\* nothing.
C30_Idempotent ==
    [][phase = "new" /\ calls = 1 /\ calls' = 2 =>
          m_value' = m_value /\ phase' = "new"]_vars

\* The aliases of a document: the objects whose "$ref" is a string that
\* begins with '#', and the position that the fragment of one names.
Aliases(v) ==
    { p \in Paths(v) :
        /\ At(v, p).tag = "object"
        /\ "$ref" \in DOMAIN At(v, p).members
        /\ At(v, p).members["$ref"].tag = "string"
        /\ Bytes(At(v, p).members["$ref"].s)[1] = 35 }
Fragment(v, p) == uri_fragment_to_pointer(Bytes(At(v, p).members["$ref"].s))

\* The positions that the alias at p leads to in n steps from alias to
\* alias, as the document names them.
RECURSIVE Leads(_, _, _)
Leads(v, p, n) ==
    IF n = 0 \/ p \notin Aliases(v) \/ Fragment(v, p) \notin Paths(v) THEN {}
    ELSE {Fragment(v, p)} \cup Leads(v, Fragment(v, p), n - 1)

\* The aliases that lead back to themselves.
Circular(v) == { p \in Aliases(v) : p \in Leads(v, p, Cardinality(Aliases(v))) }

\* C31: resolve_references on a document with an alias that leads back to
\* itself, directly or through other aliases, throws and leaves one such
\* alias as it was; and no call returns with an alias in the document whose
\* fragment, walked from the root through the pointers set so far, ends at
\* the alias itself.
C31_SelfReference ==
    /\ [][calls = 0 /\ calls' = 1 /\ Circular(m_value) # {} =>
            /\ phase' = "ref_failed"
            /\ \E p \in Circular(m_value) : At(m_value', p) = At(m_value, p)]_vars
    /\ [](calls > 0 /\ phase = "new" =>
            \A p \in Aliases(m_value) :
                pointed(m_value, <<>>, Fragment(m_value, p)) # p)

\* The call on a document whose aliases s, t and a lead around has thrown:
\* a and s were replaced by pointers, and the fragment of t, which is left
\* as it was, ends at t through them.
C31_Witness ==
    /\ phase = "ref_failed" /\ calls = 1
    /\ m_value.members["a"] = JPtr(<<"s">>)
    /\ m_value.members["s"] = JPtr(<<"t">>)
    /\ m_value.members["t"] = Ref(JStr("#/a"))
    /\ pointed(m_value, <<>>, Fragment(m_value, <<"t">>)) = <<"t">>

\* The aliases whose fragment goes through an object that has an
\* in-document "$ref" of its own, into one of its members.
Intruding(v) ==
    { p \in Aliases(v) :
        \E n \in 0..(Len(Fragment(v, p)) - 1) :
            SubSeq(Fragment(v, p), 1, n) \in Aliases(v) }

\* C32: resolve_references throws on every document with an alias whose
\* fragment descends into a member of an object that has an in-document
\* "$ref" of its own.
C32_AdditionalMembers ==
    [][calls = 0 /\ calls' = 1 /\ Intruding(m_value) # {} => phase' = "ref_failed"]_vars

\* The type names that the schema at p declares.
Declared(p) ==
    IF Val(p \o <<"type">>).tag = "string" THEN {Val(p \o <<"type">>).s}
    ELSE { Val(p \o <<"type">>).elems[i].s : i \in 1..Len(Val(p \o <<"type">>).elems) }

\* C33: a schema that declares only types accepts a signed or unsigned
\* integer exactly when "integer" or "number" is among them, and a double
\* exactly when "number" is, whatever the double's value.
C33_NumberTypes ==
    phase = "finalized" /\ Len(input) = 1 /\ input[1].k = "number" =>
        \A p \in Only("type") :
            verdict[p] <=> IF input[1].t = "d" THEN "number" \in Declared(p)
                           ELSE Declared(p) \cap {"integer", "number"} # {}

\* The double 1.0 is rejected by the types integer and integer-or-string
\* and accepted by number.
C33_Witness ==
    /\ phase = "finalized"
    /\ input = <<EvNumber("d", 1)>>
    /\ {Def("tInt"), Def("tIS"), Def("tNum"), Def("tNN")} \subseteq Only("type")
    /\ ~verdict[Def("tInt")] /\ ~verdict[Def("tIS")]
    /\ verdict[Def("tNum")] /\ verdict[Def("tNN")]

\* The depth stack after an event: an aggregate that opens adds a count of
\* zero, one that closes takes the last count away, and an element or a
\* member that ends adds one to the last count.
Tracked(c, e) ==
    CASE e.k \in {"begin_array", "begin_object"} -> Append(c, 0)
      [] e.k \in {"end_array", "end_object"} -> SubSeq(c, 1, Len(c) - 1)
      [] e.k \in {"element", "member"} -> [c EXCEPT ![Len(c)] = @ + 1]
      [] OTHER -> c

\* The sessions that no longer match.
Failed == { p \in DOMAIN sess : fault[p] = "none" /\ ~sess[p].m_match }

\* C34: an event delivered to a session whose match flag is false changes
\* nothing of it but the depth stack, which follows the event; when the
\* value has ended the depth stack of such a session is empty.
C34_FailedFrame ==
    /\ [][phase = "streaming" /\ Len(stream') = Len(stream) + 1 =>
            \A p \in Failed :
                sess'[p] = [sess[p] EXCEPT
                               !.m_count = Tracked(@, stream'[Len(stream')])]]_vars
    /\ [](Ended => \A p \in Failed : sess[p].m_count = <<>>)

\* The array ["a", 1, 1] has been delivered: the session of `items` of
\* type integer failed on the first element and still holds the item
\* session that failed, the session of type string failed on begin_array,
\* and the session of unique items failed on the last element and keeps
\* its hasher and the two hashes it had seen.
C34_Witness ==
    /\ phase = "streaming" /\ Ended
    /\ input = from_value(JArr(<<JStr("a"), JUnsigned(1), JUnsigned(1)>>))
    /\ {Def("itInt"), Def("tStr"), Def("uniq"), Def("en3")} \subseteq Failed
    /\ Len(sess[Def("itInt")].m_item) = 1
    /\ ~sess[Def("itInt")].m_item[1].m_match
    /\ sess[Def("uniq")].m_hash # <<>>
    /\ Cardinality(sess[Def("uniq")].m_unique) = 2
    /\ \A p \in Failed : sess[p].m_count = <<>>

-----------------------------------------------------------------------------
(* Validation of the events of an object in which a key may come twice,   *)
(* as a parser sends them for such a text.                                *)

\* The events of {"a": {"b": 1, "b": 1}, "b": 1}: a key twice in a nested
\* object, and once more in the object itself.
NestedTwice ==
    <<Ev("begin_object"), EvKey("a"), Ev("begin_object"), EvKey("b"),
      EvNumber("u", 1), Ev("member"), EvKey("b"), EvNumber("u", 1), Ev("member"),
      Ev("end_object"), Ev("member"), EvKey("b"), EvNumber("u", 1), Ev("member"),
      Ev("end_object")>>

KeyInputs ==
    { Members(k1, n1, k2, n2) : k1 \in {"a", "b"}, k2 \in {"a", "b"},
                                n1 \in {1, 2}, n2 \in {1, 2} }
    \cup {NestedTwice}

KeyInit ==
    /\ doc = "Keywords"
    /\ input \in KeyInputs
    /\ Blank

KeySpec == KeyInit /\ [][ValueNext]_vars

\* The keys of the members of the object itself among the events evs,
\* which open the object and need not close it.
RECURSIVE OwnKeys(_, _, _)
OwnKeys(evs, i, depth) ==
    IF i > Len(evs) THEN {}
    ELSE CASE evs[i].k \in {"begin_array", "begin_object"} -> OwnKeys(evs, i + 1, depth + 1)
           [] evs[i].k \in {"end_array", "end_object"} -> OwnKeys(evs, i + 1, depth - 1)
           [] evs[i].k = "key" /\ depth = 1 -> {evs[i].key} \cup OwnKeys(evs, i + 1, depth)
           [] OTHER -> OwnKeys(evs, i + 1, depth)

\* The schema at p has "required", or "dependencies" with a member.
KeepsKeys(p) ==
    \/ "required" \in DOMAIN Val(p).members
    \/ /\ "dependencies" \in DOMAIN Val(p).members
       /\ DOMAIN Val(p \o <<"dependencies">>).members # {}

\* The nodes with nothing but "required" or "dependencies", and the nodes
\* whose keywords are none of those by which a key may fail a session.
KeysOnly == Only("required") \cup Only("dependencies")
Unkeyed ==
    { p \in DOMAIN nodes :
        /\ is_object(p)
        /\ DOMAIN Val(p).members \cap
               {"required", "dependencies", "additionalProperties", "enum",
                "allOf", "anyOf", "oneOf", "not"} = {} }

\* C35: a key of the object itself fails a matching session of a schema
\* with only "required" or only "dependencies" exactly when the key has
\* come before in that object and the schema has "required" or a
\* "dependencies" that is not empty; the session of a schema without these
\* keywords is not failed by a key that comes again.
C35_RepeatedKey ==
    [][phase = "streaming" /\ Len(stream') = Len(stream) + 1
           /\ stream'[Len(stream')].k = "key" =>
         LET k == stream'[Len(stream')].key
             again == k \in OwnKeys(stream, 1, 0)
         IN  \A p \in KeysOnly \cup Unkeyed :
                 sess[p].m_match /\ Len(sess[p].m_count) = 1 =>
                     (sess'[p].m_match <=> ~(again /\ KeepsKeys(p)))]_vars

\* The key a has come for the second time in the object itself: the
\* sessions of "required" and of the dependencies with a member have just
\* failed, and those of the empty dependencies, of the empty schema and of
\* "properties" still match.
C35_Witness ==
    /\ phase = "streaming"
    /\ stream = SubSeq(Members("a", 2, "a", 2), 1, 5)
    /\ \A p \in {Def("req"), Def("req2"), Def("dep"), Def("depB"), Def("sdT")} :
           p \in KeysOnly /\ KeepsKeys(p) /\ ~sess[p].m_match
    /\ Def("dep0") \in KeysOnly /\ ~KeepsKeys(Def("dep0")) /\ sess[Def("dep0")].m_match
    /\ \A p \in {Def("emp"), Def("pp"), Def("tup0")} : p \in Unkeyed /\ sess[p].m_match

\* From the position p the pointers lead, in n steps at most, to a value
\* of the document that is no pointer.
RECURSIVE Ends(_, _, _)
Ends(v, p, n) ==
    IF p \notin Paths(v) THEN FALSE
    ELSE IF At(v, p).tag # "value_ptr" THEN TRUE
    ELSE IF n = 0 THEN FALSE
    ELSE Ends(v, At(v, p).target, n - 1)

\* C36: after a call of resolve_references that returned, the pointers
\* lead from every position of the document to a value that is no
\* pointer, in finitely many steps.
C36_Acyclic ==
    calls > 0 /\ phase = "new" =>
        \A p \in Paths(m_value) : Ends(m_value, p, Cardinality(Paths(m_value)))

\* ---- the events the uniqueness hasher receives ----

\* The number of events of evs up to the i-th that are of one of kinds.
Fed(evs, i, kinds) == Cardinality({ j \in 1..i : evs[j].k \in kinds })

\* No end event of evs comes before the begin event it closes.
Opened(evs) ==
    \A i \in 1..Len(evs) :
        /\ Fed(evs, i, {"end_array"}) <= Fed(evs, i, {"begin_array"})
        /\ Fed(evs, i, {"end_object"}) <= Fed(evs, i, {"begin_object"})

\* C37: the hasher of a session is fed a balanced sequence of events: since
\* its last reset it has received no end_array and no end_object that was
\* not preceded by the matching begin event forwarded to it.
C37_BalancedHasher ==
    \A p \in DOMAIN sess :
        sess[p].m_hash # <<>> => Opened(sess[p].m_hash[1])

\* ---- the assertions of validate_enum and validate_collections ----

\* C38: the assertions in validate_enum and validate_collections never
\* fire: whatever the node and whatever the events, no session, and no
\* session it owns, enters one of the two helpers after its match flag has
\* become false.
C38_Assertions ==
    \A p \in DOMAIN sess : fault[p] # "assertion" /\ TreeFault(sess[p]) # "assertion"

\* Inside an array or an object a session that owns sessions has failed,
\* with its sessions left as they were, and so has a session with an enum;
\* the events that follow reach their handlers.
C38_Witness ==
    /\ stream # <<>>
    /\ \E p \in DOMAIN sess :
           /\ fault[p] = "none" /\ ~sess[p].m_match
           /\ Children(sess[p]) # <<>> /\ sess[p].m_count # <<>>
    /\ \E p \in DOMAIN sess :
           /\ fault[p] = "none" /\ ~sess[p].m_match
           /\ "HAS_ENUM" \in Flags(sess[p]) /\ sess[p].m_count # <<>>

-----------------------------------------------------------------------------
(* IfCounter called from one thread: addCount at every IF_ the program     *)
(* passes, printStats when main has run the benchmark.                      *)

\* How many calls of the IfCounter a run makes.
MaxUses == 4

\* The keys: the LINE_ID of an IF_ site, here the line of it.
LineIds == {859, 862, 1429}

\* counterMap[key]: the counter of the key id, inserted with the member
\* initialisers of Counter (total = 0, satisfied = 0) if it is not there.
counter_of(map, id) ==
    IF id \in DOMAIN map THEN map
    ELSE map @@ (id :> [total |-> 0, satisfied |-> 0])

\* An addCount that counts the branches taken only.
addCount_of_taken(map, id, satisfied) ==
    LET inserted == counter_of(map, id)
        counted == [inserted EXCEPT ![id].total = @ + (IF satisfied THEN 1 ELSE 0)]
    IN  [map |-> [counted EXCEPT ![id].satisfied = @ + (IF satisfied THEN 1 ELSE 0)],
         result |-> satisfied]

\* IfCounter::addCount: the map it leaves and the value it returns.  The
\* counters are std::size_t, which no run of MaxUses calls wraps around.
addCount(map, id, satisfied) ==
    LET inserted == counter_of(map, id)
        counted == [inserted EXCEPT ![id].total = @ + 1]
    IN  [map |-> [counted EXCEPT ![id].satisfied = @ + (IF satisfied THEN 1 ELSE 0)],
         result |-> satisfied]

\* stats.satisfied / static_cast< double >( stats.total ): the quotient in
\* lowest terms, and with the divisor 0 no number at all.
RECURSIVE gcd(_, _)
gcd(a, b) == IF b = 0 THEN a ELSE gcd(b, a % b)
frequency(stats) ==
    IF stats.total = 0 THEN [num |-> stats.satisfied, den |-> 0]
    ELSE [num |-> stats.satisfied \div gcd(stats.satisfied, stats.total),
          den |-> stats.total \div gcd(stats.satisfied, stats.total)]

\* l.second < r.second of the std::sort in printStats.
less(l, r) == l.num * r.den < r.num * l.den

\* The vector result of printStats after the std::sort: the frequency of
\* every key, the lowest first.  Equal frequencies are one number, so the
\* order in which the map is iterated does not show.
RECURSIVE sorted(_, _)
sorted(map, keys) ==
    IF keys = {} THEN <<>>
    ELSE LET k == CHOOSE x \in keys :
                      \A y \in keys : ~less(frequency(map[y]), frequency(map[x]))
         IN  <<frequency(map[k])>> \o sorted(map, keys \ {k})
printStats(map) == sorted(map, DOMAIN map)

\* What an action of the IfCounter leaves alone.
Elsewhere ==
    UNCHANGED <<doc, m_value, phase, nodes, made, round, run, sess, fault, stream,
                stream1, pstack, pdone, verdict, verdict1, thr, crashed, input,
                build, calls>>

\* IF_( condition ) at one site.
AddCount ==
    /\ Len(history) < MaxUses
    /\ \E id \in LineIds, satisfied \in BOOLEAN :
           /\ counterMap' = addCount(counterMap, id, satisfied).map
           /\ history' = Append(history,
                  [op |-> "addCount", key |-> id, satisfied |-> satisfied,
                   result |-> addCount(counterMap, id, satisfied).result,
                   printed |-> <<>>])
    /\ Elsewhere

\* IfCounter::instance().printStats().
PrintStats ==
    /\ Len(history) < MaxUses
    /\ history' = Append(history,
           [op |-> "printStats", key |-> 0, satisfied |-> FALSE, result |-> FALSE,
            printed |-> printStats(counterMap)])
    /\ UNCHANGED counterMap
    /\ Elsewhere

CountInit ==
    /\ doc = "Chain"
    /\ input = <<>>
    /\ Blank

CountNext ==
    \/ AddCount
    \/ PrintStats

CountSpec == CountInit /\ [][CountNext]_vars

\* The calls of addCount with the key id so far.
CallsOf(id) ==
    { i \in 1..Len(history) : history[i].op = "addCount" /\ history[i].key = id }

\* C39: after any sequence of addCount calls every key in the counter map
\* has total >= 1 and satisfied <= total, total being the number of calls
\* with the key and satisfied the number of those whose condition was true;
\* a call returns its condition and leaves the counters of every other key
\* as they were; and printStats divides by no total that is 0.
C39_Counters ==
    /\ [](/\ \A k \in DOMAIN counterMap :
                /\ counterMap[k].total >= 1
                /\ counterMap[k].satisfied <= counterMap[k].total
                /\ counterMap[k].total = Cardinality(CallsOf(k))
                /\ counterMap[k].satisfied =
                       Cardinality({ i \in CallsOf(k) : history[i].satisfied })
          /\ \A i \in 1..Len(history) :
                /\ history[i].op = "addCount" => history[i].result = history[i].satisfied
                /\ \A j \in 1..Len(history[i].printed) : history[i].printed[j].den # 0)
    /\ [][Len(history') > Len(history) /\ history'[Len(history')].op = "addCount" =>
             \A k \in DOMAIN counterMap :
                 k # history'[Len(history')].key => counterMap'[k] = counterMap[k]]_vars

\* Two keys have been counted, one of them with its condition once true
\* and once false, and printStats has printed the two frequencies.
C39_Witness ==
    /\ Len(history) = 4
    /\ history[4].op = "printStats"
    /\ Len(history[4].printed) = 2
    /\ \E k \in DOMAIN counterMap :
           counterMap[k].total = 2 /\ counterMap[k].satisfied = 1

-----------------------------------------------------------------------------
(* "format": "date-time": basic_schema::validate of a string.              *)

\* The bytes of a number in two and in four decimal digits.
Two(n) == <<48 + (n \div 10), 48 + (n % 10)>>
Four(n) == Two(n \div 100) \o Two(n % 100)

\* yyyy-mm-ddThh:mi:ss, then the fraction and the zone given.
DateTime(year, month, day, hour, minute, second, fraction, zone) ==
    Four(year) \o <<45>> \o Two(month) \o <<45>> \o Two(day) \o <<84>>
    \o Two(hour) \o <<58>> \o Two(minute) \o <<58>> \o Two(second) \o fraction \o zone

\* +hh:mi and -hh:mi.
East(hour, minute) == <<43>> \o Two(hour) \o <<58>> \o Two(minute)
West(hour, minute) == <<45>> \o Two(hour) \o <<58>> \o Two(minute)

\* The strings validated: every month and day around the ends of the
\* months, in years that are and are not leap years, with the hour and the
\* offset below and at 24; and strings the shape check refuses.
DateTimes ==
    { DateTime(y, mo, d, h, 59, 0, f, z) :
        y \in {1900, 2000, 2023, 2024},
        mo \in {0, 1, 2, 4, 6, 9, 11, 12, 13},
        d \in {0, 1, 28, 29, 30, 31, 32},
        h \in {23, 24},
        f \in {<<>>, <<46, 53, 48>>},
        z \in {<<90>>, East(23, 59), West(24, 0)} }
    \cup { DateTime(2024, 2, 29, 0, mi, s, f, z) :
             mi \in {0, 60}, s \in {59, 60}, f \in {<<>>, <<46>>},
             z \in {<<90>>, <<122>>, <<>>, East(0, 60), <<90, 90>>} }
    \cup { <<>>, Bytes("a"), <<32>> \o DateTime(2024, 2, 29, 0, 0, 0, <<>>, <<90>>) }

DateInit ==
    /\ doc = "Dates"
    /\ m_value = JObj([format |-> JStr("date-time")])
    /\ input \in { <<EvString(v)>> : v \in DateTimes }
    /\ build = "wraps"
    /\ Unbuilt

DateSpec == DateInit /\ [][ValueNext]_vars

\* The number written in the bytes of v from the i-th to the j-th.
RECURSIVE Decimal(_, _, _)
Decimal(v, i, j) == IF i > j THEN 0 ELSE Decimal(v, i, j - 1) * 10 + (v[j] - 48)

\* The days of a month of a year of the calendar.
DaysOf(year, month) ==
    CASE month \in {1, 3, 5, 7, 8, 10, 12} -> 31
      [] month \in {4, 6, 9, 11} -> 30
      [] OTHER -> IF year % 400 = 0 THEN 29
                  ELSE IF year % 100 = 0 THEN 28
                  ELSE IF year % 4 = 0 THEN 29
                  ELSE 28

\* The string validated, and what the claim says of it.
Given == input[1].s
InCalendar(v) ==
    /\ Decimal(v, 6, 7) \in 1..12
    /\ Decimal(v, 9, 10) \in 1..DaysOf(Decimal(v, 1, 4), Decimal(v, 6, 7))
    /\ Decimal(v, 12, 13) < 24
    /\ v[Len(v)] # 90 => Decimal(v, Len(v) - 4, Len(v) - 3) < 24

\* C40: a string that passes the date-time shape check is accepted by
\* "format": "date-time" exactly when its month is in 1..12, its day in 1..
\* the days of that month (February has 29 in the years divisible by 4 and
\* not by 100 unless by 400), its hour below 24 and, with a numeric offset,
\* the offset hour below 24.
C40_DateTime ==
    phase = "finalized" /\ date_time_shape(Given) =>
        (verdict[<<>>] <=> InCalendar(Given))

\* 29 February 2000, 23:59:00.50 with the offset +23:59, has passed the
\* shape check and been accepted.
C40_Witness ==
    /\ phase = "finalized"
    /\ Given = DateTime(2000, 2, 29, 23, 59, 0, <<46, 53, 48>>, East(23, 59))
    /\ date_time_shape(Given)
    /\ verdict[<<>>]
====
